---- MODULE Spec2Model ----
(***************************************************************************)
(* Device provisioning and reconciliation (device-deploy-demo).            *)
(*                                                                         *)
(* Two state machines share this module:                                   *)
(*   Spec      the deploy workflow: the step-2 handler of                  *)
(*             DeviceWorkflowApp.jsx posts a form to /deploy-argocd-app,   *)
(*             the backend's upsert orchestrator talks to the continuous-  *)
(*             delivery controller (POST, 409 -> PUT, sync) and the        *)
(*             handler stores the answer.  The backend (main.py) is not    *)
(*             among the source files; it is modelled from sections 3, 4.3,*)
(*             5, 6 and 7 of the specification.                            *)
(*   SpecDash  the dashboard's inventory fetch (DeviceDashboard.jsx).      *)
(*                                                                         *)
(* A JavaScript string that the code takes apart (an application name, a   *)
(* device name) is a sequence of one-character strings; a string the code  *)
(* only stores or compares is a TLA+ string.                               *)
(***************************************************************************)
EXTENDS Integers, Sequences, FiniteSets, TLC

VARIABLES
  resources,   \* the controller's Application resources: a set of [name, spec]
  net,         \* controller requests and responses in flight
  orch,        \* per workflow: the backend's upsert orchestrator
  ui,          \* per workflow: what the step-2 handler has set in the component
  attempts,    \* per workflow: invocations started so far
  devices,     \* dashboard: the device list
  dLoading,    \* dashboard: loading
  dError,      \* dashboard: error
  connected,   \* dashboard: connected
  clusterFqdnInput, \* dashboard: the cluster FQDN typed into the settings field
  dClusterFqdn,\* dashboard: the applied cluster FQDN
  fetches,     \* dashboard: list requests in flight
  nFetch,      \* dashboard: list requests started so far
  lastFetch,   \* dashboard: the response the last settled fetch received
  console,     \* dashboard: what onSync passed to console.error
  lastOnSync,  \* dashboard: the application and outcome of the last settled onSync
  view,        \* the tab shown: "workflow" or "dashboard"
  defaultClusterFqdn, \* the clusterFqdn the workflow component hands to the dashboard
  codec,       \* the codec functions: an input and what was computed from it
  query,       \* dashboard: the search text
  statusFilter,\* dashboard: the health filter
  sortBy,      \* dashboard: the sort key and direction
  page,        \* dashboard: the current page
  pending,     \* wizard: create-device-repo and deploy-argocd-app requests in flight
  nReq,        \* wizard: requests started so far
  lastReq      \* wizard: the request that settled last and how

vars == <<resources, net, orch, ui, attempts,
          devices, dLoading, dError, connected, clusterFqdnInput, dClusterFqdn,
          fetches, nFetch, lastFetch, console, lastOnSync, view, defaultClusterFqdn,
          codec, query, statusFilter, sortBy, page, pending, nReq, lastReq>>

tableVars == <<query, statusFilter, sortBy, page>>

clickVars == <<pending, nReq, lastReq>>

upsertVars == <<resources, net, orch, ui, attempts>>

shellVars == <<view, defaultClusterFqdn>>

syncVars == <<console, lastOnSync>>

dashVars == <<devices, dLoading, dError, connected, clusterFqdnInput, dClusterFqdn,
             fetches, nFetch, lastFetch, console, lastOnSync, view, defaultClusterFqdn>>

(***************************************************************************)
(* Bounds                                                                  *)
(***************************************************************************)
\* invocations the workflows may start in all
MaxInvocations == 3
\* items in one inventory response
MaxApps == 2
\* list requests the dashboard may start
MaxFetches == 2

\* characters of an application name given to the decoder, after the prefix
MaxCodecLen == 5
\* characters of a device name given to the encoder
MaxIdentityLen == 3

\* requests the wizard's buttons may send in all
MaxRequests == 3

\* the workflows that may run at the same time
Workflows == {1, 2}

(***************************************************************************)
(* Identity codec: encode (backend, from the specification)                *)
(***************************************************************************)
LowerChars == {"a", "b"}

UpperChars == {"A"}

DigitChars == {"1", "2"}

ToLowerChar(c) == IF c = "A" THEN "a" ELSE c

\* slug: lowercase; whitespace and invalid characters become "-"
SlugChar(c) ==
  IF c \in UpperChars THEN ToLowerChar(c)
  ELSE IF c \in LowerChars \cup DigitChars THEN c
  ELSE "-"

slug(s) == [i \in 1..Len(s) |-> SlugChar(s[i])]

DevicePrefix == <<"d", "e", "v", "i", "c", "e", "-">>

\* canonical resource name = "device-" + slug(name) + "-" + id
encode(identity) == DevicePrefix \o slug(identity.name) \o <<"-">> \o identity.id

(***************************************************************************)
(* Inputs of one workflow: what the user typed in steps 1 and 2 and the    *)
(* repository URL step 1 returned                                          *)
(***************************************************************************)
Identities ==
  { [name |-> <<"a", " ", "b">>, id |-> <<"1">>],
    [name |-> <<"A", "-", "b">>, id |-> <<"1">>],
    [name |-> <<"a">>, id |-> <<"2">>] }

\* step 1 stores data.repo_url: the repository created for the device, or nothing
RepoOf(identity) ==
  IF identity.name = <<"A", "-", "b">> THEN "https://github.com/u/r2"
  ELSE "https://github.com/u/r1"

Namespaces == {""}

\* DeviceWorkflowApp.jsx: useState("https://kubernetes.default.svc")
InitialDestinationServer == "https://kubernetes.default.svc"

\* every identity with its repository, and one workflow whose step 1 stored none
Inputs ==
  { [deviceName |-> i.name,
     deviceId |-> i.id,
     repoUrl |-> RepoOf(i),
     destinationServer |-> InitialDestinationServer,
     destinationNamespace |-> n,
     clusterFqdn |-> ""] : i \in Identities, n \in Namespaces }
  \cup
  { [deviceName |-> <<"a">>,
     deviceId |-> <<"2">>,
     repoUrl |-> "",
     destinationServer |-> InitialDestinationServer,
     destinationNamespace |-> n,
     clusterFqdn |-> ""] : n \in Namespaces }

(***************************************************************************)
(* DeviceWorkflowApp.jsx, handleGenerateYaml: the form it posts            *)
(***************************************************************************)
UseArgocdApi_always(deploy) == "true"

UseArgocdApi_never(deploy) == "false"

UseArgocdApi(deploy) == IF deploy THEN "true" ELSE "false"

GenerateYamlForm(inp, deploy) ==
  [repo_url |-> inp.repoUrl,
   device_id |-> inp.deviceId,
   device_name |-> inp.deviceName,
   destination_server |-> inp.destinationServer,
   destination_namespace |-> inp.destinationNamespace,
   cluster_fqdn |-> inp.clusterFqdn,
   use_argocd_api |-> UseArgocdApi(deploy)]

(***************************************************************************)
(* Application descriptor builder (backend, from the specification)        *)
(***************************************************************************)
DefaultDestinationServer == "https://kubernetes.default.svc"

DefaultNamespace == "device-apps"

FormIdentity(form) == [name |-> form.device_name, id |-> form.device_id]

\* a validation that looks at the repo URL only
Valid_repoOnly(form) == form.repo_url # ""

\* ValidationError: empty repo URL, empty device name, or a device id that is
\* not a non-empty token
Valid(form) ==
  /\ form.repo_url # ""
  /\ form.device_name # <<>>
  /\ form.device_id # <<>>
  /\ \A i \in 1..Len(form.device_id) : form.device_id[i] # " "

build(identity, repoUrl, destinationServer, destinationNamespace) ==
  [name |-> encode(identity),
   repoUrl |-> repoUrl,
   targetRevision |-> "main",
   path |-> ".",
   destinationServer |->
     IF destinationServer = "" THEN DefaultDestinationServer ELSE destinationServer,
   destinationNamespace |->
     IF destinationNamespace = "" THEN DefaultNamespace ELSE destinationNamespace,
   project |-> "default",
   syncPolicy |-> [automated |-> TRUE, createNamespace |-> TRUE]]

\* a builder whose manifest-only output differs from what it would deploy
BuildFromForm_byMode(form) ==
  LET d == build(FormIdentity(form), form.repo_url,
                 form.destination_server, form.destination_namespace)
  IN IF form.use_argocd_api = "true" THEN d ELSE [d EXCEPT !.targetRevision = "HEAD"]

BuildFromForm(form) ==
  build(FormIdentity(form), form.repo_url,
        form.destination_server, form.destination_namespace)

\* the descriptor of a request that was never built
NoDescriptor == build([name |-> <<>>, id |-> <<>>], "", "", "")

\* the manifest text shown to the user: the Application resource's fields
ToYaml(d) ==
  [apiVersion |-> "argoproj.io/v1alpha1",
   kind |-> "Application",
   metadata |-> [name |-> d.name],
   spec |-> [project |-> d.project,
             source |-> [repoURL |-> d.repoUrl,
                         targetRevision |-> d.targetRevision,
                         path |-> d.path],
             destination |-> [server |-> d.destinationServer,
                              namespace |-> d.destinationNamespace],
             syncPolicy |-> d.syncPolicy]]

(***************************************************************************)
(* The continuous-delivery controller's REST surface (section 6)           *)
(***************************************************************************)
Is2xx(status) == status \in 200..299

Exists(res, name) == \E r \in res : r.name = name

\* POST /applications: create, 409 when the name is taken
\* PUT /applications/{name}: full replace
\* POST /applications/{name}/sync: synchronize with prune
ControllerApply(res, call) ==
  CASE call.method = "POST" ->
         IF Exists(res, call.name)
         THEN [resources |-> res, status |-> 409, body |-> "already exists"]
         ELSE [resources |-> res \cup {[name |-> call.name, spec |-> call.body]},
               status |-> 200, body |-> "created"]
    [] call.method = "PUT" ->
         IF Exists(res, call.name)
         THEN [resources |-> {r \in res : r.name # call.name}
                               \cup {[name |-> call.name, spec |-> call.body]},
               status |-> 200, body |-> "updated"]
         ELSE [resources |-> res, status |-> 404, body |-> "not found"]
    [] OTHER ->
         IF Exists(res, call.name)
         THEN [resources |-> res, status |-> 200, body |-> "synced"]
         ELSE [resources |-> res, status |-> 404, body |-> "not found"]

(***************************************************************************)
(* Upsert orchestrator (backend, from section 4.3 of the specification)    *)
(*   Building -> Creating -> {Created | Conflict} -> Updating? -> Syncing  *)
(*            -> {Deployed | Failed}                                       *)
(* A response is [status, body]; status 0 stands for a call that ended by  *)
(* timeout or transport failure.                                           *)
(***************************************************************************)
NoError == [kind |-> "none", status |-> 0, body |-> ""]

NoSync == [outcome |-> "none", error |-> NoError]

NoResult ==
  [status |-> "none", descriptor |-> NoDescriptor, rawControllerResponse |-> "",
   sync |-> NoSync, error |-> NoError]

PostCall(desc) ==
  [method |-> "POST", name |-> desc.name, body |-> desc, prune |-> FALSE]

PutCall_unkeyed(desc) ==
  [method |-> "PUT", name |-> DevicePrefix, body |-> desc, prune |-> FALSE]

PutCall(desc) ==
  [method |-> "PUT", name |-> desc.name, body |-> desc, prune |-> FALSE]

SyncCall(desc) ==
  [method |-> "SYNC", name |-> desc.name, body |-> NoDescriptor, prune |-> TRUE]

IdleOrch ==
  [phase |-> "Idle", form |-> GenerateYamlForm(CHOOSE i \in Inputs : TRUE, FALSE),
   desc |-> NoDescriptor, create |-> "none", raw |-> "",
   calls |-> <<>>, resps |-> <<>>, result |-> NoResult, prior |-> <<>>]

\* ControllerRejected carries the controller's status and body verbatim;
\* TransportError is kept apart from it
ErrorOf(r) ==
  IF r.status = 0
  THEN [kind |-> "TransportError", status |-> 0, body |-> r.body]
  ELSE [kind |-> "ControllerRejected", status |-> r.status, body |-> r.body]

Fail(o, err) ==
  [o EXCEPT !.phase = "Failed",
            !.result = [NoResult EXCEPT !.status = "error", !.error = err]]

\* Building: validate, build, and either return the manifest or start creating
OnBuild(o) ==
  IF ~Valid(o.form)
  THEN Fail(o, [kind |-> "ValidationError", status |-> 0, body |-> "invalid input"])
  ELSE LET d == BuildFromForm(o.form) IN
       IF o.form.use_argocd_api = "true"
       THEN [o EXCEPT !.phase = "Creating", !.desc = d,
                      !.calls = Append(@, PostCall(d))]
       ELSE [o EXCEPT !.phase = "YamlOnly", !.desc = d,
                      !.result = [NoResult EXCEPT !.status = "yaml_only",
                                                  !.descriptor = d]]

OnCreateOutcome_conflictIsCreated(o, r) ==
  IF Is2xx(r.status) \/ r.status = 409
  THEN [o EXCEPT !.phase = "Syncing", !.create = "Created", !.raw = r.body,
                 !.calls = Append(@, SyncCall(o.desc))]
  ELSE Fail(o, ErrorOf(r))

OnCreateOutcome_retries(o, r) ==
  IF Is2xx(r.status)
  THEN [o EXCEPT !.phase = "Syncing", !.create = "Created", !.raw = r.body,
                 !.calls = Append(@, SyncCall(o.desc))]
  ELSE IF r.status = 409
  THEN [o EXCEPT !.phase = "Updating", !.create = "Conflict",
                 !.calls = Append(@, PutCall(o.desc))]
  ELSE IF Len(o.calls) = 1
  THEN [o EXCEPT !.calls = Append(@, PostCall(o.desc))]
  ELSE Fail(o, ErrorOf(r))

\* Creating: 2xx -> Created, 409 -> Conflict and a full replace, else Failed
OnCreateOutcome(o, r) ==
  IF Is2xx(r.status)
  THEN [o EXCEPT !.phase = "Syncing", !.create = "Created", !.raw = r.body,
                 !.calls = Append(@, SyncCall(o.desc))]
  ELSE IF r.status = 409
  THEN [o EXCEPT !.phase = "Updating", !.create = "Conflict",
                 !.calls = Append(@, PutCall(o.desc))]
  ELSE Fail(o, ErrorOf(r))

OnUpdateOutcome_noSync(o, r) ==
  IF Is2xx(r.status)
  THEN [o EXCEPT !.phase = "Deployed", !.raw = r.body,
                 !.result = [NoResult EXCEPT !.status = "deployed",
                                             !.descriptor = o.desc,
                                             !.rawControllerResponse = r.body]]
  ELSE Fail(o, ErrorOf(r))

OnUpdateOutcome_syncAnyway(o, r) ==
  [o EXCEPT !.phase = "Syncing", !.raw = r.body,
            !.calls = Append(@, SyncCall(o.desc))]

\* Updating: 2xx -> sync, else Failed
OnUpdateOutcome(o, r) ==
  IF Is2xx(r.status)
  THEN [o EXCEPT !.phase = "Syncing", !.raw = r.body,
                 !.calls = Append(@, SyncCall(o.desc))]
  ELSE Fail(o, ErrorOf(r))

OnSyncOutcome_fatal(o, r) ==
  IF Is2xx(r.status)
  THEN [o EXCEPT !.phase = "Deployed",
                 !.result = [NoResult EXCEPT
                               !.status = "deployed",
                               !.descriptor = o.desc,
                               !.rawControllerResponse = o.raw,
                               !.sync = [outcome |-> "ok", error |-> NoError]]]
  ELSE Fail(o, ErrorOf(r))

\* Syncing: Deployed either way; a failed sync is reported beside the result
OnSyncOutcome(o, r) ==
  [o EXCEPT !.phase = "Deployed",
            !.result = [NoResult EXCEPT
                          !.status = "deployed",
                          !.descriptor = o.desc,
                          !.rawControllerResponse = o.raw,
                          !.sync = IF Is2xx(r.status)
                                   THEN [outcome |-> "ok", error |-> NoError]
                                   ELSE [outcome |-> "failed", error |-> ErrorOf(r)]]]

Awaiting(o) == o.phase \in {"Creating", "Updating", "Syncing"}

Terminal(o) == o.phase \in {"Deployed", "Failed", "YamlOnly"}

OnOutcome(o, r) ==
  LET o1 == [o EXCEPT !.resps = Append(@, r)] IN
  CASE o.phase = "Creating" -> OnCreateOutcome(o1, r)
    [] o.phase = "Updating" -> OnUpdateOutcome(o1, r)
    [] OTHER -> OnSyncOutcome(o1, r)

\* what /deploy-argocd-app answers
DeployResponse(o) ==
  IF o.phase = "Failed"
  THEN [error |-> o.result.error, argocd_yaml |-> <<>>, status |-> "",
        argocd_response |-> "", sync |-> NoSync]
  ELSE [error |-> NoError, argocd_yaml |-> <<ToYaml(o.result.descriptor)>>,
        status |-> o.result.status,
        argocd_response |-> o.result.rawControllerResponse,
        sync |-> o.result.sync]

(***************************************************************************)
(* DeviceWorkflowApp.jsx, handleGenerateYaml: what it does with the answer *)
(***************************************************************************)
InitialUi ==
  [step |-> 2, loading |-> FALSE, error |-> NoError, argoYaml |-> <<>>,
   deploymentStatus |-> "", argoApiResponse |-> "", deploy |-> FALSE,
   inputs |-> CHOOSE i \in Inputs : TRUE]

\* a handler that moves on to step 3 whatever the answer
OnDeployData_stepsOnError(u, data) ==
  IF data.error # NoError
  THEN [u EXCEPT !.error = data.error, !.step = 3, !.loading = FALSE]
  ELSE [u EXCEPT !.argoYaml = data.argocd_yaml,
                 !.deploymentStatus =
                    IF data.status # "" THEN data.status
                    ELSE IF u.deploy THEN "deployed" ELSE "yaml_only",
                 !.argoApiResponse = data.argocd_response,
                 !.step = 3,
                 !.loading = FALSE]

\* if (data.error) throw ... catch: setError; otherwise the four setters
OnDeployData(u, data) ==
  IF data.error # NoError
  THEN [u EXCEPT !.error = data.error, !.loading = FALSE]
  ELSE [u EXCEPT !.argoYaml = data.argocd_yaml,
                 !.deploymentStatus =
                    IF data.status # "" THEN data.status
                    ELSE IF u.deploy THEN "deployed" ELSE "yaml_only",
                 !.argoApiResponse = data.argocd_response,
                 !.step = 3,
                 !.loading = FALSE]

(***************************************************************************)
(* The deploy workflow's actions                                           *)
(***************************************************************************)
Request(w, att, seq, call) ==
  [kind |-> "req", w |-> w, att |-> att, seq |-> seq, call |-> call,
   status |-> 0, body |-> ""]

Response(m, status, body) ==
  [m EXCEPT !.kind = "resp", !.status = status, !.body = body]

\* the requests for the calls o2 issued beyond those of o
Sent(w, o, o2) ==
  { Request(w, attempts[w], k, o2.calls[k]) : k \in (Len(o.calls) + 1)..Len(o2.calls) }

\* a call the orchestrator has stopped waiting for
Stale(m) ==
  \/ m.att # attempts[m.w]
  \/ ~Awaiting(orch[m.w])
  \/ m.seq <= Len(orch[m.w].resps)

RECURSIVE SumOver(_, _)
SumOver(f, S) ==
  IF S = {} THEN 0
  ELSE LET x == CHOOSE y \in S : TRUE IN f[x] + SumOver(f, S \ {x})

\* invocations started so far
Started == SumOver(attempts, Workflows)

\* how an earlier invocation of the workflow ended
PriorTag(o) == IF o.phase = "Failed" THEN o.result.error.kind ELSE o.phase

\* the user presses "Create ArgoCD YAML" (deploy = FALSE) or "Create & Deploy"
HandleGenerateYaml(w, deploy) ==
  /\ ui[w].step = 2
  /\ ~ui[w].loading
  /\ Started < MaxInvocations
  /\ ui' = [ui EXCEPT ![w] = [@ EXCEPT !.loading = TRUE, !.error = NoError,
                                       !.deploy = deploy]]
  /\ orch' = [orch EXCEPT ![w] =
                [IdleOrch EXCEPT !.phase = "Building",
                                 !.form = GenerateYamlForm(ui[w].inputs, deploy),
                                 !.prior = IF attempts[w] = 0 THEN <<>>
                                           ELSE Append(orch[w].prior, PriorTag(orch[w]))]]
  /\ attempts' = [attempts EXCEPT ![w] = @ + 1]
  /\ UNCHANGED <<resources, net, dashVars, codec, tableVars, clickVars>>

BuildStep(w) ==
  /\ orch[w].phase = "Building"
  /\ LET o2 == OnBuild(orch[w]) IN
       /\ orch' = [orch EXCEPT ![w] = o2]
       /\ net' = net \cup Sent(w, orch[w], o2)
  /\ UNCHANGED <<resources, ui, attempts, dashVars, codec, tableVars, clickVars>>

\* the controller serves a request
ControllerHandle(m) ==
  /\ m \in net
  /\ m.kind = "req"
  /\ LET a == ControllerApply(resources, m.call) IN
       /\ resources' = a.resources
       /\ net' = (net \ {m}) \cup
                 (IF Stale(m) THEN {} ELSE {Response(m, a.status, a.body)})
  /\ UNCHANGED <<orch, ui, attempts, dashVars, codec, tableVars, clickVars>>

\* the controller refuses a request without applying it
ControllerReject(m) ==
  /\ m \in net
  /\ m.kind = "req"
  /\ ~Stale(m)
  /\ net' = (net \ {m}) \cup {Response(m, 500, "internal error")}
  /\ UNCHANGED <<resources, orch, ui, attempts, dashVars, codec, tableVars, clickVars>>

\* the orchestrator receives the answer to the call it waits for
OnResponse(w) ==
  /\ Awaiting(orch[w])
  /\ \E m \in net :
       /\ m.kind = "resp" /\ m.w = w /\ m.att = attempts[w]
       /\ m.seq = Len(orch[w].resps) + 1
       /\ LET o2 == OnOutcome(orch[w], [status |-> m.status, body |-> m.body]) IN
            /\ orch' = [orch EXCEPT ![w] = o2]
            /\ net' = (net \ {m}) \cup Sent(w, orch[w], o2)
  /\ UNCHANGED <<resources, ui, attempts, dashVars, codec, tableVars, clickVars>>

\* the call the orchestrator waits for times out (or the caller abandons it):
\* the request may still reach the controller later, its answer is lost
Timeout(w) ==
  /\ Awaiting(orch[w])
  /\ LET o2 == OnOutcome(orch[w], [status |-> 0, body |-> "timeout"]) IN
       /\ orch' = [orch EXCEPT ![w] = o2]
       /\ net' = {m \in net : ~(m.kind = "resp" /\ m.w = w)} \cup Sent(w, orch[w], o2)
  /\ UNCHANGED <<resources, ui, attempts, dashVars, codec, tableVars, clickVars>>

\* the handler receives the backend's answer
GenerateYamlResponse(w) ==
  /\ ui[w].step = 2
  /\ ui[w].loading
  /\ Terminal(orch[w])
  /\ ui' = [ui EXCEPT ![w] = OnDeployData(@, DeployResponse(orch[w]))]
  /\ UNCHANGED <<resources, net, orch, attempts, dashVars, codec, tableVars, clickVars>>

(***************************************************************************)
(* The dashboard's inventory fetch (DeviceDashboard.jsx)                   *)
(***************************************************************************)
\* a field a JSON object does not carry: of a string the code takes apart,
\* and of a string the code only stores
undefinedChars == <<"undefined">>

undefined == "undefined"

\* JavaScript truthiness of the two kinds of string
Truthy(s) == s # undefinedChars /\ s # <<>>

TruthyStr(s) == s # undefined /\ s # ""

StartsWith(s, p) == Len(s) >= Len(p) /\ SubSeq(s, 1, Len(p)) = p

\* the first position of c in s instead of the last
LastIndexOf_first(s, c) ==
  LET hits == {i \in 1..Len(s) : s[i] = c} IN
  IF hits = {} THEN 0 ELSE CHOOSE i \in hits : \A j \in hits : i <= j

\* the last position of c in s, counted from 1; 0 where lastIndexOf gives -1
LastIndexOf(s, c) ==
  LET hits == {i \in 1..Len(s) : s[i] = c} IN
  IF hits = {} THEN 0 ELSE CHOOSE i \in hits : \A j \in hits : j <= i

\* a decoder that leaves the dashes in the name
ReplaceDashes_keeps(s) == s

\* replace(/-/g, " ")
ReplaceDashes(s) ==
  IF s = <<>> THEN <<>> ELSE [i \in 1..Len(s) |-> IF s[i] = "-" THEN " " ELSE s[i]]

parseDeviceFields(appName) ==
  IF ~Truthy(appName) THEN [deviceName |-> <<>>, deviceId |-> <<>>]
  ELSE
    LET trimmed == IF StartsWith(appName, DevicePrefix)
                     THEN SubSeq(appName, Len(DevicePrefix) + 1, Len(appName))
                     ELSE appName
        lastDash == LastIndexOf(trimmed, "-")
    IN IF lastDash = 0 THEN [deviceName |-> trimmed, deviceId |-> <<>>]
       ELSE [deviceName |-> ReplaceDashes(SubSeq(trimmed, 1, lastDash - 1)),
             deviceId   |-> SubSeq(trimmed, lastDash + 1, Len(trimmed))]

\* String.prototype.trim, with the space as the only whitespace
trim(s) ==
  LET keep == {i \in 1..Len(s) : s[i] # " "} IN
  IF keep = {} THEN <<>>
  ELSE SubSeq(s, CHOOSE i \in keep : \A j \in keep : i <= j,
                 CHOOSE i \in keep : \A j \in keep : j <= i)

\* a map callback that prefers the caller's cluster FQDN to the item's own
NormalizeApp_callerFirst(app, clusterFqdn) ==
  LET applicationName == IF Truthy(app.appName) THEN app.appName ELSE app.name
      parsed == parseDeviceFields(applicationName)
  IN [deviceName  |-> parsed.deviceName,
      deviceId    |-> parsed.deviceId,
      namespace   |-> app.namespace,
      cluster     |-> app.cluster,
      health      |-> app.health,
      syncStatus  |-> app.sync,
      lastSync    |-> app.lastSync,
      repoUrl     |-> IF TruthyStr(app.repoUrl) THEN app.repoUrl ELSE "#",
      clusterFqdn |-> IF Truthy(clusterFqdn) THEN clusterFqdn
                      ELSE IF Truthy(app.clusterFqdn) THEN app.clusterFqdn ELSE <<>>,
      appName     |-> applicationName,
      name        |-> applicationName]

\* the record the map callback builds from one item of data.apps
NormalizeApp(app, clusterFqdn) ==
  LET applicationName == IF Truthy(app.appName) THEN app.appName ELSE app.name
      parsed == parseDeviceFields(applicationName)
  IN [deviceName  |-> parsed.deviceName,
      deviceId    |-> parsed.deviceId,
      namespace   |-> app.namespace,
      cluster     |-> app.cluster,
      health      |-> app.health,
      syncStatus  |-> app.sync,
      lastSync    |-> app.lastSync,
      repoUrl     |-> IF TruthyStr(app.repoUrl) THEN app.repoUrl ELSE "#",
      clusterFqdn |-> IF Truthy(app.clusterFqdn) THEN app.clusterFqdn
                      ELSE IF Truthy(clusterFqdn) THEN clusterFqdn ELSE <<>>,
      appName     |-> applicationName,
      name        |-> applicationName]

\* a projection that leaves out the items without an appName
Normalize_dropsUnnamed(apps, clusterFqdn) ==
  LET named == SelectSeq(apps, LAMBDA a : Truthy(a.appName)) IN
  IF named = <<>> THEN <<>>
  ELSE [i \in 1..Len(named) |-> NormalizeApp(named[i], clusterFqdn)]

\* Array.prototype.map over the items
Normalize(apps, clusterFqdn) ==
  IF apps = <<>> THEN <<>>
  ELSE [i \in 1..Len(apps) |-> NormalizeApp(apps[i], clusterFqdn)]

\* res.ok
ResOk(resp) == resp.status >= 200 /\ resp.status <= 299

HttpMessage(status) == "HTTP " \o ToString(status)

\* a fetch that does not look at the body's error field
FetchError_ignoresErrorField(resp) ==
  IF resp.kind = "reject" THEN resp.message
  ELSE IF ~ResOk(resp) THEN HttpMessage(resp.status)
  ELSE IF ~resp.json THEN resp.message
  ELSE ""

\* the message of what the try block throws before the projection, "" when it
\* throws nothing: fetch rejects, the status is not ok, the body is not JSON,
\* or the body carries a truthy error
FetchError(resp) ==
  IF resp.kind = "reject" THEN resp.message
  ELSE IF ~ResOk(resp) THEN HttpMessage(resp.status)
  ELSE IF ~resp.json THEN resp.message
  ELSE IF resp.error # "" THEN resp.error
  ELSE ""

\* data.apps || []
DataApps(resp) == IF resp.hasApps THEN resp.apps ELSE <<>>

\* items of an inventory response: a well-formed one, one named only by name
\* and lacking health, one outside the device- convention, one with no name
AppItems ==
  { [appName |-> DevicePrefix \o <<"a", "-", "b", "-", "1">>,
     name |-> DevicePrefix \o <<"a", "-", "b", "-", "1">>,
     namespace |-> "device-apps", cluster |-> "https://kubernetes.default.svc",
     health |-> "Healthy", sync |-> "Synced", lastSync |-> "t1",
     repoUrl |-> "https://github.com/u/r1", clusterFqdn |-> undefinedChars],
    [appName |-> undefinedChars,
     name |-> DevicePrefix \o <<"a", "-", "2">>,
     namespace |-> "edge", cluster |-> "https://kubernetes.default.svc",
     health |-> undefined, sync |-> "OutOfSync", lastSync |-> undefined,
     repoUrl |-> undefined, clusterFqdn |-> <<"c">>],
    [appName |-> <<"g", "b">>,
     name |-> <<"g", "b">>,
     namespace |-> "default", cluster |-> "in-cluster",
     health |-> "Degraded", sync |-> "Synced", lastSync |-> "t2",
     repoUrl |-> "", clusterFqdn |-> <<>>],
    [appName |-> <<>>,
     name |-> undefinedChars,
     namespace |-> undefined, cluster |-> undefined,
     health |-> "Progressing", sync |-> undefined, lastSync |-> "t3",
     repoUrl |-> "https://github.com/u/r2", clusterFqdn |-> undefinedChars] }

\* lists of up to MaxApps items; the controller holds one application per name,
\* so no item occurs twice in a list
AppLists ==
  UNION {{l \in [1..k -> AppItems] : \A i, j \in 1..k : l[i] = l[j] => i = j} : k \in 0..MaxApps}

Body(status, error, hasApps, apps) ==
  [kind |-> "response", status |-> status, message |-> "", json |-> TRUE,
   error |-> error, hasApps |-> hasApps, apps |-> apps]

\* what one list request can meet
Responses ==
  { [kind |-> "reject", status |-> 0, message |-> "Failed to fetch", json |-> FALSE,
     error |-> "", hasApps |-> FALSE, apps |-> <<>>],
    [kind |-> "response", status |-> 200, message |-> "Unexpected token", json |-> FALSE,
     error |-> "", hasApps |-> FALSE, apps |-> <<>>],
    Body(500, "", FALSE, <<>>),
    Body(200, "", FALSE, <<>>) }
  \cup {Body(502, "bad gateway", TRUE, <<a>>) : a \in {b \in AppItems : b.health = "Healthy"}}
  \cup {Body(200, "partial listing", TRUE, <<a>>) : a \in {b \in AppItems : b.health = "Healthy"}}
  \cup {Body(200, "", TRUE, apps) : apps \in AppLists}

\* what the settings field may hold
FqdnInputs == {<<>>, <<" ", "e", " ">>}

NoFetch == [id |-> 0, clusterFqdn |-> <<>>, resp |-> Body(0, "", FALSE, <<>>)]

\* fetchDevices up to its await: loading on, error cleared, request sent with
\* the clusterFqdn the callback closed over
StartFetch(clusterFqdn) ==
  /\ nFetch < MaxFetches
  /\ dLoading' = TRUE
  /\ dError' = ""
  /\ nFetch' = nFetch + 1
  /\ fetches' = fetches \cup {[id |-> nFetch + 1, clusterFqdn |-> clusterFqdn]}
  /\ UNCHANGED <<devices, connected, lastFetch>>

\* the effect that runs fetchDevices after the first render
MountEffect ==
  /\ nFetch = 0
  /\ StartFetch(dClusterFqdn)
  /\ UNCHANGED <<clusterFqdnInput, dClusterFqdn, upsertVars, shellVars, syncVars, codec, tableVars, clickVars>>

HandleRefresh ==
  /\ nFetch > 0
  /\ StartFetch(dClusterFqdn)
  /\ UNCHANGED <<clusterFqdnInput, dClusterFqdn, upsertVars, shellVars, syncVars, codec, tableVars, clickVars>>

\* typing into the settings field
SetClusterFqdnInput(v) ==
  /\ nFetch > 0
  /\ v # clusterFqdnInput
  /\ clusterFqdnInput' = v
  /\ UNCHANGED <<devices, dLoading, dError, connected, dClusterFqdn,
                 fetches, nFetch, lastFetch, upsertVars, shellVars, syncVars, codec, tableVars, clickVars>>

\* Apply: a changed clusterFqdn gives fetchDevices a new identity, and the
\* effect that depends on it fetches again (an unchanged one renders nothing)
ApplyClusterSettings ==
  /\ nFetch > 0
  /\ trim(clusterFqdnInput) # dClusterFqdn
  /\ dClusterFqdn' = trim(clusterFqdnInput)
  /\ StartFetch(trim(clusterFqdnInput))
  /\ UNCHANGED <<clusterFqdnInput, upsertVars, shellVars, syncVars, codec, tableVars, clickVars>>

\* a settle that adds the projection to the records already held
FetchSettle_keepsEarlier(f, resp) ==
  /\ f \in fetches
  /\ LET err == FetchError(resp) IN
     IF err = ""
       THEN /\ devices' = devices \o Normalize(DataApps(resp), f.clusterFqdn)
            /\ connected' = TRUE
            /\ UNCHANGED dError
       ELSE /\ dError' = err
            /\ connected' = FALSE
            /\ UNCHANGED devices
  /\ dLoading' = FALSE
  /\ fetches' = fetches \ {f}
  /\ lastFetch' = [id |-> f.id, clusterFqdn |-> f.clusterFqdn, resp |-> resp]
  /\ UNCHANGED <<clusterFqdnInput, dClusterFqdn, nFetch, upsertVars, shellVars, syncVars, codec, tableVars, clickVars>>

\* a settle whose setLoading(false) is the last statement of the try block
FetchSettle_noFinally(f, resp) ==
  /\ f \in fetches
  /\ LET err == FetchError(resp) IN
     IF err = ""
       THEN /\ devices' = Normalize(DataApps(resp), f.clusterFqdn)
            /\ connected' = TRUE
            /\ dLoading' = FALSE
            /\ UNCHANGED dError
       ELSE /\ dError' = err
            /\ connected' = FALSE
            /\ UNCHANGED <<devices, dLoading>>
  /\ fetches' = fetches \ {f}
  /\ lastFetch' = [id |-> f.id, clusterFqdn |-> f.clusterFqdn, resp |-> resp]
  /\ UNCHANGED <<clusterFqdnInput, dClusterFqdn, nFetch, upsertVars, shellVars, syncVars, codec, tableVars, clickVars>>

\* fetchDevices from its await on: the projection or the catch, then finally
FetchSettle(f, resp) ==
  /\ f \in fetches
  /\ LET err == FetchError(resp) IN
     IF err = ""
       THEN /\ devices' = Normalize(DataApps(resp), f.clusterFqdn)
            /\ connected' = TRUE
            /\ UNCHANGED dError
       ELSE /\ dError' = err
            /\ connected' = FALSE
            /\ UNCHANGED devices
  /\ dLoading' = FALSE
  /\ fetches' = fetches \ {f}
  /\ lastFetch' = [id |-> f.id, clusterFqdn |-> f.clusterFqdn, resp |-> resp]
  /\ UNCHANGED <<clusterFqdnInput, dClusterFqdn, nFetch, upsertVars, shellVars, syncVars, codec, tableVars, clickVars>>

(***************************************************************************)
(* The deploy workflow's specification                                     *)
(***************************************************************************)
\* a resource left by an earlier deployment, since drifted
DriftedResource ==
  LET i == [name |-> <<"a", " ", "b">>, id |-> <<"1">>] IN
  [name |-> encode(i),
   spec |-> [build(i, "https://github.com/u/r1", "", "") EXCEPT !.targetRevision = "old"]]

\* no onSync has settled
NoOnSync == [app |-> <<>>, outcome |-> [kind |-> "none", status |-> 0, message |-> ""]]

\* no codec function has been applied
NoCodec ==
  [op |-> "none", input |-> <<>>, identity |-> [name |-> <<>>, id |-> <<>>],
   output |-> [deviceName |-> <<>>, deviceId |-> <<>>]]

\* useState({ key: "deviceName", dir: "asc" })
InitialSortBy == [key |-> "deviceName", dir |-> "asc"]

\* no create-device-repo or deploy-argocd-app request has settled
NoReq == [id |-> 0, w |-> 0, kind |-> "none", deploy |-> FALSE, failed |-> FALSE]

\* the wizard has sent nothing
ClicksIdle ==
  /\ pending = {}
  /\ nReq = 0
  /\ lastReq = NoReq

\* the dashboard component's initial state values
DashIdle ==
  /\ query = <<>>
  /\ statusFilter = "All"
  /\ sortBy = InitialSortBy
  /\ page = 1
  /\ console = {}
  /\ lastOnSync = NoOnSync
  /\ devices = <<>>
  /\ dLoading = FALSE
  /\ dError = ""
  /\ connected = FALSE
  /\ fetches = {}
  /\ nFetch = 0
  /\ lastFetch = NoFetch

Init ==
  /\ resources \in {{}, {DriftedResource}}
  /\ net = {}
  /\ orch = [w \in Workflows |-> IdleOrch]
  /\ ui \in [Workflows -> {[InitialUi EXCEPT !.inputs = i] : i \in Inputs}]
  /\ attempts = [w \in Workflows |-> 0]
  /\ DashIdle
  /\ ClicksIdle
  /\ clusterFqdnInput = <<>>
  /\ dClusterFqdn = <<>>
  /\ view = "workflow"
  /\ defaultClusterFqdn = <<>>
  /\ codec = NoCodec

Next ==
  \/ \E w \in Workflows, deploy \in BOOLEAN : HandleGenerateYaml(w, deploy)
  \/ \E w \in Workflows : BuildStep(w)
  \/ \E m \in net : ControllerHandle(m)
  \/ \E m \in net : ControllerReject(m)
  \/ \E w \in Workflows : OnResponse(w)
  \/ \E w \in Workflows : Timeout(w)
  \/ \E w \in Workflows : GenerateYamlResponse(w)

Spec == Init /\ [][Next]_vars

(***************************************************************************)
(* The deploy workflow on inputs that lack something                       *)
(***************************************************************************)
\* one complete input, and inputs without a repo URL, without a device name,
\* without a device id, and with a device id that is not a token
DeficientInputs ==
  LET ok == [deviceName |-> <<"a">>, deviceId |-> <<"2">>,
             repoUrl |-> "https://github.com/u/r1",
             destinationServer |-> InitialDestinationServer,
             destinationNamespace |-> "", clusterFqdn |-> ""]
  IN { ok,
       [ok EXCEPT !.repoUrl = ""],
       [ok EXCEPT !.deviceName = <<>>],
       [ok EXCEPT !.deviceId = <<>>],
       [ok EXCEPT !.deviceId = <<"2", " ">>] }

InitValidation ==
  /\ resources \in {{}, {DriftedResource}}
  /\ net = {}
  /\ orch = [w \in Workflows |-> IdleOrch]
  /\ ui \in [Workflows -> {[InitialUi EXCEPT !.inputs = i] : i \in DeficientInputs}]
  /\ attempts = [w \in Workflows |-> 0]
  /\ DashIdle
  /\ ClicksIdle
  /\ clusterFqdnInput = <<>>
  /\ dClusterFqdn = <<>>
  /\ view = "workflow"
  /\ defaultClusterFqdn = <<>>
  /\ codec = NoCodec

SpecValidation == InitValidation /\ [][Next]_vars

(***************************************************************************)
(* The dashboard's specification                                           *)
(***************************************************************************)
\* the dashboard as constructed: both cluster FQDN states start from the
\* defaultClusterFqdn prop; the workflows stay idle
InitDash ==
  /\ resources = {}
  /\ net = {}
  /\ orch = [w \in Workflows |-> IdleOrch]
  /\ ui = [w \in Workflows |-> InitialUi]
  /\ attempts = [w \in Workflows |-> 0]
  /\ DashIdle
  /\ ClicksIdle
  /\ defaultClusterFqdn \in FqdnInputs
  /\ clusterFqdnInput = defaultClusterFqdn
  /\ dClusterFqdn = defaultClusterFqdn
  /\ view = "dashboard"
  /\ codec = NoCodec

NextDash ==
  \/ MountEffect
  \/ HandleRefresh
  \/ \E v \in FqdnInputs : SetClusterFqdnInput(v)
  \/ ApplyClusterSettings
  \/ \E f \in fetches, resp \in Responses : FetchSettle(f, resp)

SpecDash == InitDash /\ [][NextDash]_vars

\* the fetches of the dashboard under a network that answers or fails every
\* request: each fetch in flight eventually settles
\* the answers without items: each way of failing, and the empty list
LoadingResponses == {r \in Responses : r.apps = <<>>}

NextLoading ==
  \/ MountEffect
  \/ HandleRefresh
  \/ \E v \in FqdnInputs : SetClusterFqdnInput(v)
  \/ ApplyClusterSettings
  \/ \E f \in fetches, resp \in LoadingResponses : FetchSettle(f, resp)

SpecLoading ==
  /\ InitDash
  /\ [][NextLoading]_vars
  /\ \A k \in 1..MaxFetches :
       WF_vars(\E f \in fetches, resp \in LoadingResponses :
                 f.id = k /\ FetchSettle(f, resp))

(***************************************************************************)
(* The dashboard's Sync button (DeviceDashboard.jsx, onSync)               *)
(***************************************************************************)
\* what the request to /argocd/sync can meet: an answer the backend gives with
\* a 2xx or another status, or no answer
SyncOutcomes ==
  { [kind |-> "response", status |-> 200, message |-> ""],
    [kind |-> "response", status |-> 500, message |-> ""],
    [kind |-> "reject", status |-> 0, message |-> "Failed to fetch"] }

\* onSync for the i-th row: the request is awaited and its answer is not looked
\* at; a rejection is caught and passed to console.error
OnSync(i, outcome) ==
  /\ i \in 1..Len(devices)
  /\ console' = IF outcome.kind = "reject" THEN console \cup {outcome.message} ELSE console
  /\ lastOnSync' = [app |-> devices[i].name, outcome |-> outcome]
  /\ UNCHANGED <<devices, dLoading, dError, connected, clusterFqdnInput, dClusterFqdn,
                 fetches, nFetch, lastFetch, shellVars, upsertVars, codec, tableVars, clickVars>>

\* the dashboard loads once and the user presses Sync on its rows
NextSync ==
  \/ MountEffect
  \/ \E f \in fetches, resp \in Responses : FetchSettle(f, resp)
  \/ \E i \in 1..MaxApps, outcome \in SyncOutcomes : OnSync(i, outcome)

SpecSync == InitDash /\ [][NextSync]_vars

(***************************************************************************)
(* The identity codec's specification: parseDeviceFields applied to        *)
(* application names, and to what encode makes of an identity              *)
(***************************************************************************)
Strings(alphabet, n) == UNION {[1..k -> alphabet] : k \in 0..n}

\* application names: with and without the device- prefix, and a missing one
DecodeInputs ==
  LET rest == Strings({"a", "-", "1"}, MaxCodecLen) IN
  {undefinedChars} \cup rest \cup {DevicePrefix \o r : r \in rest}

\* identities a user may type: device names of letters in both cases, spaces
\* and dashes; device ids with and without a dash
EncodeInputs ==
  {[name |-> n, id |-> i] :
     n \in Strings({"a", "A", " ", "-"}, MaxIdentityLen) \ {<<>>},
     i \in {<<"1">>, <<"1", "-", "2">>}}

\* the workflows and the dashboard at rest
AppIdle ==
  /\ resources = {}
  /\ net = {}
  /\ orch = [w \in Workflows |-> IdleOrch]
  /\ ui = [w \in Workflows |-> InitialUi]
  /\ attempts = [w \in Workflows |-> 0]
  /\ DashIdle
  /\ ClicksIdle
  /\ clusterFqdnInput = <<>>
  /\ dClusterFqdn = <<>>
  /\ view = "workflow"
  /\ defaultClusterFqdn = <<>>

InitCodec ==
  /\ AppIdle
  /\ codec \in {[NoCodec EXCEPT !.op = "name", !.input = n] : n \in DecodeInputs}
          \cup {[NoCodec EXCEPT !.op = "identity", !.identity = i] : i \in EncodeInputs}

\* the backend names the application of an identity
Encode ==
  /\ codec.op = "identity"
  /\ codec' = [codec EXCEPT !.op = "encoded", !.input = encode(codec.identity)]
  /\ UNCHANGED <<upsertVars, dashVars, tableVars, clickVars>>

\* the dashboard takes an application name apart
Decode ==
  /\ codec.op \in {"name", "encoded"}
  /\ codec' = [codec EXCEPT !.op = IF codec.op = "name" THEN "decoded" ELSE "roundtrip",
                            !.output = parseDeviceFields(codec.input)]
  /\ UNCHANGED <<upsertVars, dashVars, tableVars, clickVars>>

NextCodec ==
  \/ Encode
  \/ Decode

SpecCodec == InitCodec /\ [][NextCodec]_vars

(***************************************************************************)
(* The wizard's steps 1 and 3 (DeviceWorkflowApp.jsx): creating the        *)
(* repository and Start Over                                               *)
(***************************************************************************)
\* what POST /create-device-repo can answer: a repository URL, or an error
CreateRepoData ==
  { [error |-> "", repo_url |-> "https://github.com/u/r2"],
    [error |-> "repo creation failed", repo_url |-> ""] }

\* handleCreateRepo after the await: if (data.error) throw ... catch: setError;
\* otherwise setRepoUrl, the three clears and setStep(2); then setLoading(false)
OnCreateRepoData(u, data) ==
  IF data.error # ""
  THEN [u EXCEPT !.error = [kind |-> "Error", status |-> 0, body |-> data.error],
                 !.loading = FALSE]
  ELSE [u EXCEPT !.inputs.repoUrl = data.repo_url,
                 !.deploymentStatus = "",
                 !.argoApiResponse = "",
                 !.argoYaml = <<>>,
                 !.step = 2,
                 !.loading = FALSE]

\* the step-1 button (disabled while loading): setLoading(true); setError("")
HandleCreateRepo(w) ==
  /\ ui[w].step = 1
  /\ ~ui[w].loading
  /\ ui' = [ui EXCEPT ![w] = [@ EXCEPT !.loading = TRUE, !.error = NoError]]
  /\ UNCHANGED <<resources, net, orch, attempts, dashVars, codec, tableVars, clickVars>>

CreateRepoResponse(w, data) ==
  /\ ui[w].step = 1
  /\ ui[w].loading
  /\ ui' = [ui EXCEPT ![w] = OnCreateRepoData(@, data)]
  /\ UNCHANGED <<resources, net, orch, attempts, dashVars, codec, tableVars, clickVars>>

OnStartOver_clearsRepo(u) ==
  [u EXCEPT !.step = 1, !.deploymentStatus = "", !.argoApiResponse = "",
            !.argoYaml = <<>>, !.inputs.repoUrl = ""]

\* setStep(1); setDeploymentStatus(""); setArgoApiResponse(""); setArgoYaml("")
OnStartOver(u) ==
  [u EXCEPT !.step = 1, !.deploymentStatus = "", !.argoApiResponse = "",
            !.argoYaml = <<>>]

\* the Start Over button is rendered on step 3 only
StartOver(w) ==
  /\ ui[w].step = 3
  /\ ui' = [ui EXCEPT ![w] = OnStartOver(@)]
  /\ UNCHANGED <<resources, net, orch, attempts, dashVars, codec, tableVars, clickVars>>

WizardInputs ==
  { i \in Inputs : i.deviceName = <<"a">> /\ i.repoUrl # "" }

InitWizard ==
  /\ resources = {}
  /\ net = {}
  /\ orch = [w \in Workflows |-> IdleOrch]
  /\ ui \in [Workflows -> {[InitialUi EXCEPT !.inputs = i] : i \in WizardInputs}]
  /\ attempts = [w \in Workflows |-> 0]
  /\ DashIdle
  /\ ClicksIdle
  /\ clusterFqdnInput = <<>>
  /\ dClusterFqdn = <<>>
  /\ view = "workflow"
  /\ defaultClusterFqdn = <<>>
  /\ codec = NoCodec

NextWizard ==
  \/ \E w \in Workflows, deploy \in BOOLEAN : HandleGenerateYaml(w, deploy)
  \/ \E w \in Workflows : BuildStep(w)
  \/ \E m \in net : ControllerHandle(m)
  \/ \E m \in net : ControllerReject(m)
  \/ \E w \in Workflows : OnResponse(w)
  \/ \E w \in Workflows : Timeout(w)
  \/ \E w \in Workflows : GenerateYamlResponse(w)
  \/ \E w \in Workflows : StartOver(w)
  \/ \E w \in Workflows : HandleCreateRepo(w)
  \/ \E w \in Workflows, data \in CreateRepoData : CreateRepoResponse(w, data)

SpecWizard == InitWizard /\ [][NextWizard]_vars

(***************************************************************************)
(* The wizard's buttons and the requests they send (DeviceWorkflowApp.jsx):*)
(* the step-1 button is disabled while loading, the step-2 buttons are not *)
(***************************************************************************)
\* the component as it is constructed: step 1, no repository yet
FirstUi ==
  [InitialUi EXCEPT !.step = 1,
                    !.inputs = [deviceName |-> <<"a">>, deviceId |-> <<"2">>,
                                repoUrl |-> "",
                                destinationServer |-> InitialDestinationServer,
                                destinationNamespace |-> "", clusterFqdn |-> ""]]

\* what the handler makes of a failed request: the message of what was thrown
\* when fetch rejects, when the body is not JSON, when the body has an error
FailureMessages == {"Failed to fetch", "Unexpected token", "request failed"}

\* what handleCreateRepo can find after its await
ClickCreateData ==
  {[error |-> "", repo_url |-> "https://github.com/u/r2"]}
  \cup {[error |-> m, repo_url |-> ""] : m \in FailureMessages}

\* what handleGenerateYaml can find after its await, for the form it sent
ClickDeployData(inp, deploy) ==
  { [error |-> NoError,
     argocd_yaml |-> <<ToYaml(BuildFromForm(GenerateYamlForm(inp, deploy)))>>,
     status |-> IF deploy THEN "deployed" ELSE "",
     argocd_response |-> IF deploy THEN "created" ELSE "",
     sync |-> NoSync] }
  \cup
  { [error |-> [kind |-> "Error", status |-> 0, body |-> m],
     argocd_yaml |-> <<>>, status |-> "", argocd_response |-> "", sync |-> NoSync]
      : m \in FailureMessages }

\* a request of workflow w in flight
RequestsOf(w) == {r \in pending : r.w = w}

\* handleGenerateYaml after its await, with the deploy flag of its own call
OnGenerateSettled(u, deploy, data) ==
  OnDeployData([u EXCEPT !.deploy = deploy], data)

\* Next: Create Repository (disabled while loading)
PressCreateRepo(w) ==
  /\ ui[w].step = 1
  /\ ~ui[w].loading
  /\ nReq < MaxRequests
  /\ ui' = [ui EXCEPT ![w] = [@ EXCEPT !.loading = TRUE, !.error = NoError]]
  /\ nReq' = nReq + 1
  /\ pending' = pending \cup
       {[id |-> nReq + 1, w |-> w, kind |-> "create", deploy |-> FALSE,
         inputs |-> ui[w].inputs]}
  /\ UNCHANGED <<lastReq, resources, net, orch, attempts, dashVars, codec, tableVars>>

\* Create ArgoCD YAML / Create & Deploy: neither button is disabled
PressGenerate(w, deploy) ==
  /\ ui[w].step = 2
  /\ nReq < MaxRequests
  /\ ui' = [ui EXCEPT ![w] = [@ EXCEPT !.loading = TRUE, !.error = NoError]]
  /\ nReq' = nReq + 1
  /\ pending' = pending \cup
       {[id |-> nReq + 1, w |-> w, kind |-> "deploy", deploy |-> deploy,
         inputs |-> ui[w].inputs]}
  /\ UNCHANGED <<lastReq, resources, net, orch, attempts, dashVars, codec, tableVars>>

\* handleCreateRepo from its await on
SettleCreate(r, data) ==
  /\ r \in pending
  /\ r.kind = "create"
  /\ ui' = [ui EXCEPT ![r.w] = OnCreateRepoData(@, data)]
  /\ pending' = pending \ {r}
  /\ lastReq' = [id |-> r.id, w |-> r.w, kind |-> r.kind, deploy |-> r.deploy,
                 failed |-> data.error # ""]
  /\ UNCHANGED <<nReq, resources, net, orch, attempts, dashVars, codec, tableVars>>

\* handleGenerateYaml from its await on
SettleGenerate(r, data) ==
  /\ r \in pending
  /\ r.kind = "deploy"
  /\ ui' = [ui EXCEPT ![r.w] = OnGenerateSettled(@, r.deploy, data)]
  /\ pending' = pending \ {r}
  /\ lastReq' = [id |-> r.id, w |-> r.w, kind |-> r.kind, deploy |-> r.deploy,
                 failed |-> data.error # NoError]
  /\ UNCHANGED <<nReq, resources, net, orch, attempts, dashVars, codec, tableVars>>

\* Start Over while requests may still be in flight
PressStartOver(w) ==
  /\ ui[w].step = 3
  /\ ui' = [ui EXCEPT ![w] = OnStartOver(@)]
  /\ UNCHANGED <<clickVars, resources, net, orch, attempts, dashVars, codec, tableVars>>

InitClicks ==
  /\ resources = {}
  /\ net = {}
  /\ orch = [w \in Workflows |-> IdleOrch]
  /\ ui = [w \in Workflows |-> FirstUi]
  /\ attempts = [w \in Workflows |-> 0]
  /\ DashIdle
  /\ ClicksIdle
  /\ clusterFqdnInput = <<>>
  /\ dClusterFqdn = <<>>
  /\ view = "workflow"
  /\ defaultClusterFqdn = <<>>
  /\ codec = NoCodec

NextClicks ==
  \/ \E w \in Workflows : PressCreateRepo(w)
  \/ \E w \in Workflows, deploy \in BOOLEAN : PressGenerate(w, deploy)
  \/ \E r \in pending, data \in ClickCreateData : SettleCreate(r, data)
  \/ \E r \in pending : \E data \in ClickDeployData(r.inputs, r.deploy) : SettleGenerate(r, data)
  \/ \E w \in Workflows : PressStartOver(w)

SpecClicks == InitClicks /\ [][NextClicks]_vars

(***************************************************************************)
(* The two tabs (DeviceWorkflowApp.jsx): view === "dashboard" &&           *)
(* <DeviceDashboard defaultClusterFqdn={clusterFqdn} />                    *)
(***************************************************************************)
\* setView("workflow"): the dashboard component is removed. Its variables keep
\* what it held when it was removed; nothing reads them until the next mount
\* replaces them. A fetch still in flight settles into a component that is no
\* longer there.
ShowWorkflow ==
  /\ view = "dashboard"
  /\ view' = "workflow"
  /\ fetches' = {}
  /\ UNCHANGED <<devices, dLoading, dError, connected, clusterFqdnInput,
                 dClusterFqdn, nFetch, lastFetch, defaultClusterFqdn,
                 upsertVars, syncVars, codec, tableVars, clickVars>>

\* setView("dashboard"): a new DeviceDashboard is mounted, every useState takes
\* its initial value, the two settings values from the defaultClusterFqdn prop
ShowDashboard ==
  /\ view = "workflow"
  /\ view' = "dashboard"
  /\ devices' = <<>>
  /\ dLoading' = FALSE
  /\ dError' = ""
  /\ connected' = FALSE
  /\ fetches' = {}
  /\ nFetch' = 0
  /\ lastFetch' = NoFetch
  /\ clusterFqdnInput' = defaultClusterFqdn
  /\ dClusterFqdn' = defaultClusterFqdn
  /\ query' = <<>>
  /\ statusFilter' = "All"
  /\ sortBy' = InitialSortBy
  /\ page' = 1
  /\ UNCHANGED <<defaultClusterFqdn, upsertVars, syncVars, codec, clickVars>>

\* the dashboard's handlers and effects run while it is mounted
NextTabs ==
  \/ view = "dashboard" /\ MountEffect
  \/ view = "dashboard" /\ HandleRefresh
  \/ view = "dashboard" /\ \E v \in FqdnInputs : SetClusterFqdnInput(v)
  \/ view = "dashboard" /\ ApplyClusterSettings
  \/ view = "dashboard" /\ \E f \in fetches, resp \in Responses : FetchSettle(f, resp)
  \/ ShowWorkflow
  \/ ShowDashboard

SpecTabs == InitDash /\ [][NextTabs]_vars

(***************************************************************************)
(* The dashboard's table: search, health filter, sort and pages            *)
(* (DeviceDashboard.jsx 88-117, DeviceTable)                               *)
(***************************************************************************)
\* const pageSize = 8
pageSize == 8

fetchVars == <<devices, dLoading, dError, connected, clusterFqdnInput, dClusterFqdn,
               fetches, nFetch, lastFetch>>

\* the device names of an inventory that does not fit one page
TableNames == <<"a", "b", "c", "d", "e", "f", "g", "h", "i">>

TableItem(k) ==
  [appName |-> DevicePrefix \o <<TableNames[k], "-", IF k % 2 = 1 THEN "1" ELSE "2">>,
   name |-> DevicePrefix \o <<TableNames[k], "-", IF k % 2 = 1 THEN "1" ELSE "2">>,
   namespace |-> IF k = 1 THEN "edge" ELSE undefined,
   cluster |-> "in-cluster",
   health |-> IF k = 1 THEN "Degraded" ELSE "Healthy",
   sync |-> "Synced", lastSync |-> "t1",
   repoUrl |-> undefined, clusterFqdn |-> undefinedChars]

\* an inventory of pageSize + 1 items, in an order that is not the sorted one
TableApps ==
  [k \in 1..Len(TableNames) |-> TableItem(Len(TableNames) + 1 - k)]

\* what a list request of the table's dashboard can meet
TableResponses ==
  { Body(200, "", TRUE, TableApps),
    Body(200, "", TRUE, <<TableItem(2)>>),
    Body(500, "", FALSE, <<>>) }

\* what the search field may hold
Queries == {<<>>, <<"a">>, <<"1">>}

StatusFilters == {"All", "Healthy", "Degraded", "Error", "Unknown"}

\* the keys of the sortable column headers
SortKeys == {"deviceName", "deviceId"}

\* toLowerCase
ToLower(s) == [i \in 1..Len(s) |-> ToLowerChar(s[i])]

\* String.prototype.includes
Includes(s, q) ==
  \E i \in 0..(Len(s) - Len(q)) : SubSeq(s, i + 1, i + Len(q)) = q

\* the characters of the namespaces items carry
NamespaceChars(ns) ==
  CASE ns = "edge" -> <<"e", "d", "g", "e">>
    [] ns = "default" -> <<"d", "e", "f", "a", "u", "l", "t">>
    [] ns = "device-apps" -> <<"d", "e", "v", "i", "c", "e", "-", "a", "p", "p", "s">>
    [] OTHER -> <<>>

\* the filter callback of the search: deviceName, deviceId or namespace
\* includes the lowercased query
MatchesQuery(d, q) ==
  \/ Includes(ToLower(d.deviceName), ToLower(q))
  \/ Includes(ToLower(d.deviceId), ToLower(q))
  \/ d.namespace # undefined /\ Includes(ToLower(NamespaceChars(d.namespace)), ToLower(q))

\* if (query) filter; if (statusFilter !== "All") filter
Filter(ds, q, status) ==
  LET byQuery == IF q # <<>> THEN SelectSeq(ds, LAMBDA d : MatchesQuery(d, q)) ELSE ds
  IN IF status # "All" THEN SelectSeq(byQuery, LAMBDA d : d.health = status)
     ELSE byQuery

\* UTF-16 code units of the characters names and ids are made of
CodeUnit(c) ==
  CASE c = " " -> 32 [] c = "-" -> 45 [] c = "1" -> 49 [] c = "2" -> 50
    [] c = "A" -> 65 [] c = "a" -> 97 [] c = "b" -> 98 [] c = "c" -> 99
    [] c = "d" -> 100 [] c = "e" -> 101 [] c = "f" -> 102 [] c = "g" -> 103
    [] c = "h" -> 104 [] c = "i" -> 105 [] OTHER -> 117

\* A < B on strings
RECURSIVE StringLess(_, _)
StringLess(A, B) ==
  IF B = <<>> THEN FALSE
  ELSE IF A = <<>> THEN TRUE
  ELSE IF CodeUnit(Head(A)) # CodeUnit(Head(B)) THEN CodeUnit(Head(A)) < CodeUnit(Head(B))
  ELSE StringLess(Tail(A), Tail(B))

\* (a[sortBy.key] || "").toString().toLowerCase()
SortField(d, key) ==
  ToLower(IF key = "deviceName" THEN d.deviceName ELSE d.deviceId)

\* the comparator: negative when a goes before b
Compare(a, b, sort) ==
  LET A == SortField(a, sort.key)
      B == SortField(b, sort.key)
  IN IF StringLess(A, B) THEN (IF sort.dir = "asc" THEN -1 ELSE 1)
     ELSE IF StringLess(B, A) THEN (IF sort.dir = "asc" THEN 1 ELSE -1)
     ELSE 0

\* one element put into a sorted sequence, behind the elements equal to it
RECURSIVE Insert(_, _, _)
Insert(sorted, x, sort) ==
  IF sorted = <<>> THEN <<x>>
  ELSE IF Compare(x, Head(sorted), sort) < 0 THEN <<x>> \o sorted
  ELSE <<Head(sorted)>> \o Insert(Tail(sorted), x, sort)

\* data.slice().sort(comparator): a sorted copy (the sort is stable)
RECURSIVE Sorted(_, _)
Sorted(ds, sort) ==
  IF ds = <<>> THEN <<>>
  ELSE Insert(Sorted(SubSeq(ds, 1, Len(ds) - 1), sort), ds[Len(ds)], sort)

\* the memoised filtered and sorted view of the device list
filtered == Sorted(Filter(devices, query, statusFilter), sortBy)

\* Math.max(1, Math.ceil(filtered.length / pageSize))
totalPages ==
  LET n == Len(Filter(devices, query, statusFilter)) IN
  IF n = 0 THEN 1 ELSE (n + pageSize - 1) \div pageSize

\* filtered.slice((page - 1) * pageSize, page * pageSize)
pageData ==
  SubSeq(filtered, (page - 1) * pageSize + 1,
         IF page * pageSize < Len(filtered) THEN page * pageSize ELSE Len(filtered))

\* the table is rendered when the dashboard is neither loading nor in error
TableShown == ~dLoading /\ dError = ""

\* a toggle that flips the direction whatever the key
NextSortBy_flipsAlways(s, key) ==
  [key |-> key, dir |-> IF s.dir = "asc" THEN "desc" ELSE "asc"]

\* setSortBy((s) => ({ key, dir: s.key === key && s.dir === "asc" ? "desc" : "asc" }))
NextSortBy(s, key) ==
  [key |-> key, dir |-> IF s.key = key /\ s.dir = "asc" THEN "desc" ELSE "asc"]

\* typing into the search field
SetQuery(q) ==
  /\ nFetch > 0
  /\ q # query
  /\ query' = q
  /\ UNCHANGED <<statusFilter, sortBy, page, fetchVars, upsertVars, shellVars,
                 syncVars, codec, clickVars>>

\* choosing a health filter
SetStatusFilter(v) ==
  /\ nFetch > 0
  /\ v # statusFilter
  /\ statusFilter' = v
  /\ UNCHANGED <<query, sortBy, page, fetchVars, upsertVars, shellVars,
                 syncVars, codec, clickVars>>

\* clicking a column header
OnSort(key) ==
  /\ nFetch > 0
  /\ TableShown
  /\ sortBy' = NextSortBy(sortBy, key)
  /\ UNCHANGED <<query, statusFilter, page, fetchVars, upsertVars, shellVars,
                 syncVars, codec, clickVars>>

\* Prev (disabled on page 1): setPage((p) => Math.max(1, p - 1))
OnPrev ==
  /\ nFetch > 0
  /\ TableShown
  /\ page # 1
  /\ page' = IF page - 1 > 1 THEN page - 1 ELSE 1
  /\ UNCHANGED <<query, statusFilter, sortBy, fetchVars, upsertVars, shellVars,
                 syncVars, codec, clickVars>>

\* Next (disabled on the last page): setPage((p) => Math.min(totalPages, p + 1))
OnNext ==
  /\ nFetch > 0
  /\ TableShown
  /\ page # totalPages
  /\ page' = IF page + 1 < totalPages THEN page + 1 ELSE totalPages
  /\ UNCHANGED <<query, statusFilter, sortBy, fetchVars, upsertVars, shellVars,
                 syncVars, codec, clickVars>>

NextTable ==
  \/ MountEffect
  \/ HandleRefresh
  \/ \E f \in fetches, resp \in TableResponses : FetchSettle(f, resp)
  \/ \E q \in Queries : SetQuery(q)
  \/ \E v \in StatusFilters : SetStatusFilter(v)
  \/ \E key \in SortKeys : OnSort(key)
  \/ OnPrev
  \/ OnNext

SpecTable == InitDash /\ [][NextTable]_vars

(***************************************************************************)
(* Claims about the deploy workflow                                        *)
(***************************************************************************)
\* the identity, canonical name and descriptor of workflow w's inputs
IdentityOf(w) == [name |-> ui[w].inputs.deviceName, id |-> ui[w].inputs.deviceId]

CanonicalName(w) == encode(IdentityOf(w))

DescriptorOf(w) ==
  build(IdentityOf(w), ui[w].inputs.repoUrl,
        ui[w].inputs.destinationServer, ui[w].inputs.destinationNamespace)

ValidInputs(w) ==
  /\ ui[w].inputs.repoUrl # ""
  /\ ui[w].inputs.deviceName # <<>>
  /\ ui[w].inputs.deviceId # <<>>
  /\ \A i \in 1..Len(ui[w].inputs.deviceId) : ui[w].inputs.deviceId[i] # " "

Under(name) == {r \in resources : r.name = name}

Methods(o) == [k \in 1..Len(o.calls) |-> o.calls[k].method]

\* the k-th call of the invocation ended without a 2xx answer
CallFailed(o, k) == k <= Len(o.resps) /\ ~Is2xx(o.resps[k].status)

\* the invocation met neither a timeout nor a refusing controller
Undisturbed(o) == \A k \in 1..Len(o.resps) : o.resps[k].status \notin {0, 500}

\* the invocation in orch[w] is a deploy-mode upsert of valid inputs
DeployMode(w) == attempts[w] > 0 /\ ui[w].deploy /\ ValidInputs(w)

\* C1: upsert idempotence.  When every invocation started so far carries the
\* same inputs, an invocation that ended Deployed leaves exactly one resource
\* under the canonical name, with the descriptor as its spec, also after an
\* earlier invocation was abandoned in flight; and an invocation that met no
\* timeout and no refusing controller ends Deployed with a successful sync.
C1_UpsertIdempotent ==
  \A w \in Workflows :
    ( /\ DeployMode(w)
      /\ Terminal(orch[w])
      /\ \A v \in Workflows : attempts[v] > 0 => ui[v].inputs = ui[w].inputs )
    => /\ Undisturbed(orch[w]) =>
            /\ orch[w].phase = "Deployed"
            /\ orch[w].result.status = "deployed"
            /\ orch[w].result.sync.outcome = "ok"
       /\ orch[w].phase = "Deployed" =>
            Under(CanonicalName(w)) =
              {[name |-> CanonicalName(w), spec |-> DescriptorOf(w)]}

\* a retry that follows an abandoned create the controller had applied: it ran
\* into the conflict, replaced the resource and ended Deployed
C1_Witness ==
  \E w \in Workflows :
    /\ DeployMode(w)
    /\ \A v \in Workflows : attempts[v] > 0 => ui[v].inputs = ui[w].inputs
    /\ orch[w].prior = <<"TransportError">>
    /\ orch[w].phase = "Deployed"
    /\ orch[w].create = "Conflict"
    /\ Undisturbed(orch[w])
    /\ Cardinality(Under(CanonicalName(w))) = 1
    /\ DriftedResource \notin resources

\* C2: create branching.  A deploy-mode upsert first issues POST /applications
\* with the descriptor; a 2xx answer leads to Created; a 409 answer leads to
\* Updating with a PUT for the same name carrying the same descriptor; any
\* other answer leads to Failed with the controller's status and body in the
\* result (and, once delivered, in the component's error), and neither a PUT
\* nor a sync is issued.
C2_CreateBranching ==
  \A w \in Workflows :
    LET o == orch[w] IN
    (DeployMode(w) /\ o.phase # "Building") =>
      /\ Len(o.calls) >= 1
      /\ o.calls[1] = PostCall(DescriptorOf(w))
      /\ Len(o.resps) >= 1 =>
           LET r == o.resps[1] IN
           /\ Is2xx(r.status) => o.create = "Created" /\ o.phase \in {"Syncing", "Deployed"}
           /\ r.status = 409 =>
                /\ o.create = "Conflict"
                /\ o.phase \in {"Updating", "Syncing", "Deployed", "Failed"}
                /\ Len(o.calls) >= 2
                /\ o.calls[2] = PutCall(DescriptorOf(w))
           /\ (r.status # 0 /\ ~Is2xx(r.status) /\ r.status # 409) =>
                /\ o.phase = "Failed"
                /\ o.result.error =
                     [kind |-> "ControllerRejected", status |-> r.status, body |-> r.body]
                /\ Len(o.calls) = 1
                /\ ~ui[w].loading => ui[w].error = o.result.error /\ ui[w].step = 2

\* a create the controller refused, delivered to the component
C2_Witness ==
  \E w \in Workflows :
    /\ DeployMode(w)
    /\ Len(orch[w].resps) = 1
    /\ orch[w].resps[1].status = 500
    /\ ~ui[w].loading
    /\ ui[w].error.body = "internal error"

\* C3: conflict path.  After a 409 to the create, the calls are POST, PUT and,
\* once the PUT has succeeded, one sync, in that order and all for the
\* canonical name; there is no second POST.
C3_ConflictPath ==
  \A w \in Workflows :
    LET o == orch[w] IN
    (attempts[w] > 0 /\ Len(o.resps) >= 1 /\ o.resps[1].status = 409) =>
      /\ Len(o.calls) \in {2, 3}
      /\ Methods(o) = SubSeq(<<"POST", "PUT", "SYNC">>, 1, Len(o.calls))
      /\ \A k \in 1..Len(o.calls) : o.calls[k].name = CanonicalName(w)
      /\ Len(o.calls) = 3 <=> (Len(o.resps) >= 2 /\ Is2xx(o.resps[2].status))

\* the whole conflict path ran
C3_Witness ==
  \E w \in Workflows :
    /\ orch[w].resps # <<>>
    /\ orch[w].resps[1].status = 409
    /\ Methods(orch[w]) = <<"POST", "PUT", "SYNC">>
    /\ orch[w].phase = "Deployed"

\* the current invocation's calls the controller or the network still holds
InFlight(w) == {m \in net : m.w = w /\ m.att = attempts[w] /\ ~Stale(m)}

\* C4: call ordering.  At most one call of an invocation is in flight; a PUT is
\* the second call and follows a 409 to the POST; a sync follows a 2xx answer
\* to the POST or to the PUT that is the call before it.
C4_CallOrdering ==
  \A w \in Workflows :
    LET o == orch[w] IN
    /\ Len(o.calls) - Len(o.resps) \in {0, 1}
    /\ Cardinality(InFlight(w)) <= 1
    /\ \A k \in 1..Len(o.calls) :
         /\ o.calls[k].method = "PUT" =>
              k = 2 /\ o.calls[1].method = "POST" /\ o.resps[1].status = 409
         /\ o.calls[k].method = "SYNC" =>
              /\ k > 1
              /\ o.calls[k - 1].method \in {"POST", "PUT"}
              /\ Is2xx(o.resps[k - 1].status)

\* a sync in flight after a successful update, and a failed update with no sync
C4_Witness ==
  /\ \E w \in Workflows :
       /\ Methods(orch[w]) = <<"POST", "PUT", "SYNC">>
       /\ Cardinality(InFlight(w)) = 1
  /\ \E w \in Workflows :
       /\ Methods(orch[w]) = <<"POST", "PUT">>
       /\ orch[w].phase = "Failed"

\* C5: sync-failure isolation.  When the sync call fails after a successful
\* create or update, the resource stays in the controller, nothing is issued
\* after the sync, the result's status is deployed with no error, and the sync
\* failure is reported beside it.
C5_SyncFailureIsolated ==
  \A w \in Workflows :
    LET o == orch[w] IN
    \A k \in 1..Len(o.calls) :
      (o.calls[k].method = "SYNC" /\ CallFailed(o, k)) =>
        /\ k = Len(o.calls)
        /\ o.phase = "Deployed"
        /\ o.result.status = "deployed"
        /\ o.result.descriptor = DescriptorOf(w)
        /\ o.result.error = NoError
        /\ o.result.sync = [outcome |-> "failed", error |-> ErrorOf(o.resps[k])]
        /\ Under(CanonicalName(w)) # {}
        /\ ~ui[w].loading =>
             /\ ui[w].deploymentStatus = "deployed"
             /\ ui[w].error = NoError
             /\ ui[w].step = 3

\* a create the controller accepted whose sync it refused, delivered
C5_Witness ==
  \E w \in Workflows :
    /\ Methods(orch[w]) = <<"POST", "SYNC">>
    /\ Len(orch[w].resps) = 2
    /\ orch[w].resps[2].status = 500
    /\ ~ui[w].loading
    /\ ui[w].step = 3

\* C6 as claimed: concurrent workflows of one identity leave exactly one
\* resource under its canonical name, and a workflow never addresses a call to
\* the resource of a workflow with a different identity.
C6_AsClaimed ==
  /\ \A r \in resources : Cardinality(Under(r.name)) = 1
  /\ \A w \in Workflows :
       orch[w].phase = "Deployed" => Cardinality(Under(CanonicalName(w))) = 1
  /\ \A w, v \in Workflows :
       (attempts[v] > 0 /\ IdentityOf(w) # IdentityOf(v)) =>
         \A k \in 1..Len(orch[w].calls) : orch[w].calls[k].name # CanonicalName(v)

\* C6, amended: under every interleaving no name holds two resources, a
\* Deployed workflow's canonical name holds exactly one, every call a workflow
\* issues is addressed to its own canonical name, and every resource is the
\* one found at the start or carries the descriptor of a workflow with that
\* canonical name -- so workflows whose canonical names differ never create,
\* replace or sync each other's resource.
C6_ConcurrentWorkflows ==
  /\ \A r \in resources : Cardinality(Under(r.name)) = 1
  /\ \A w \in Workflows :
       /\ orch[w].phase = "Deployed" => Cardinality(Under(CanonicalName(w))) = 1
       /\ \A k \in 1..Len(orch[w].calls) : orch[w].calls[k].name = CanonicalName(w)
  /\ \A m \in net : m.call.name = CanonicalName(m.w)
  /\ \A r \in resources :
       \/ r = DriftedResource
       \/ \E w \in Workflows :
            attempts[w] > 0 /\ r.name = CanonicalName(w) /\ r.spec = DescriptorOf(w)

\* two workflows of one identity in flight at once: one created the resource,
\* the other met the conflict and is replacing it
C6_Witness ==
  \E w, v \in Workflows :
    /\ w # v
    /\ IdentityOf(w) = IdentityOf(v)
    /\ orch[w].phase = "Syncing" /\ orch[w].create = "Created"
    /\ orch[v].phase = "Updating"
    /\ InFlight(w) # {} /\ InFlight(v) # {}
    /\ Cardinality(Under(CanonicalName(w))) = 1

\* the invocation in orch[w] asked for the manifest only
YamlOnlyMode(w) == attempts[w] > 0 /\ ~ui[w].deploy /\ ValidInputs(w)

\* C7: yaml_only issues no call.  An invocation that asks for the manifest only
\* issues no controller call, ends with status yaml_only and the builder's
\* descriptor, which the component then shows; and no step of such an
\* invocation changes the controller's resources or what is in flight.
C7_YamlOnlyNoNetwork ==
  /\ [](\A w \in Workflows :
          YamlOnlyMode(w) =>
            /\ orch[w].calls = <<>>
            /\ \A m \in net : ~(m.w = w /\ m.att = attempts[w])
            /\ orch[w].phase \in {"Building", "YamlOnly"}
            /\ orch[w].phase = "YamlOnly" =>
                 /\ orch[w].result.status = "yaml_only"
                 /\ orch[w].result.descriptor = DescriptorOf(w)
                 /\ ~ui[w].loading =>
                      /\ ui[w].deploymentStatus = "yaml_only"
                      /\ ui[w].argoYaml = <<ToYaml(DescriptorOf(w))>>
                      /\ ui[w].argoApiResponse = ""
                      /\ ui[w].step = 3)
  /\ [][\A w \in Workflows :
          (~ui'[w].deploy /\ attempts'[w] > 0
             /\ (orch'[w] # orch[w] \/ ui'[w] # ui[w]))
          => (resources' = resources /\ net' = net)]_vars

\* a manifest-only invocation delivered beside a resource it did not touch
C7_Witness ==
  \E w \in Workflows :
    /\ YamlOnlyMode(w)
    /\ orch[w].phase = "YamlOnly"
    /\ ~ui[w].loading
    /\ ui[w].step = 3
    /\ resources = {DriftedResource}
    /\ CanonicalName(w) = DriftedResource.name

\* no method is issued twice in one invocation
AtMostOnce(o) ==
  \A j, k \in 1..Len(o.calls) : o.calls[j].method = o.calls[k].method => j = k

\* the k-th call timed out, met a transport failure or was rejected
\* (a 409 to the create is the handled conflict)
CallRejected(o, k) ==
  /\ CallFailed(o, k)
  /\ ~(k = 1 /\ o.resps[k].status = 409)

\* C8: no automatic retry.  In one invocation no call is issued twice, and a
\* call that times out, meets a transport failure or is rejected is the last
\* call of the invocation: the operation ends with that error in its result --
\* as the result's error, status error, when the create or the update failed,
\* and as the sync report's error when the sync failed.
C8_NoRetry ==
  \A w \in Workflows :
    LET o == orch[w] IN
    /\ AtMostOnce(o)
    /\ \A k \in 1..Len(o.calls) :
         CallRejected(o, k) =>
           /\ k = Len(o.calls)
           /\ o.calls[k].method \in {"POST", "PUT"} =>
                /\ o.phase = "Failed"
                /\ o.result.status = "error"
                /\ o.result.error = ErrorOf(o.resps[k])
           /\ o.calls[k].method = "SYNC" =>
                /\ o.phase = "Deployed"
                /\ o.result.sync = [outcome |-> "failed", error |-> ErrorOf(o.resps[k])]

\* an update that timed out: the operation failed with a transport error
C8_Witness ==
  \E w \in Workflows :
    /\ Methods(orch[w]) = <<"POST", "PUT">>
    /\ Len(orch[w].resps) = 2
    /\ orch[w].resps[2].status = 0
    /\ orch[w].phase = "Failed"
    /\ orch[w].result.error.kind = "TransportError"

(***************************************************************************)
(* Claims about the dashboard's inventory fetch                            *)
(***************************************************************************)
\* the response passed every check of the try block
ListSucceeds(resp) ==
  resp.kind = "response" /\ ResOk(resp) /\ resp.json /\ resp.error = ""

\* the request failed by transport error, by a non-2xx status or by an error
\* field in the body
ListFails(resp) ==
  \/ resp.kind = "reject"
  \/ resp.kind = "response" /\ ~ResOk(resp)
  \/ resp.kind = "response" /\ resp.json /\ resp.error # ""

\* the name the i-th record must carry: the item's appName, else its name
NameOf(app) == IF app.appName \in {<<>>, undefinedChars} THEN app.name ELSE app.appName

\* C9: the inventory projection is complete and order-preserving.  After a
\* fetch that received a successful list response with n items, the device
\* list has exactly n records, and the i-th record carries the name, the
\* namespace, the cluster, the health, the sync status and the last sync time
\* of the i-th item.
C9_ProjectionComplete ==
  (lastFetch.id > 0 /\ ListSucceeds(lastFetch.resp)) =>
    LET apps == IF lastFetch.resp.hasApps THEN lastFetch.resp.apps ELSE <<>> IN
    /\ Len(devices) = Len(apps)
    /\ \A i \in 1..Len(apps) :
         /\ devices[i].appName = NameOf(apps[i])
         /\ devices[i].name = NameOf(apps[i])
         /\ devices[i].namespace = apps[i].namespace
         /\ devices[i].cluster = apps[i].cluster
         /\ devices[i].health = apps[i].health
         /\ devices[i].syncStatus = apps[i].sync
         /\ devices[i].lastSync = apps[i].lastSync

\* a response of two different items, the first without an appName and without
\* health, projected in the order received
C9_Witness ==
  /\ lastFetch.id > 0
  /\ ListSucceeds(lastFetch.resp)
  /\ Len(lastFetch.resp.apps) = 2
  /\ lastFetch.resp.apps[1].appName = undefinedChars
  /\ lastFetch.resp.apps[1].health = undefined
  /\ lastFetch.resp.apps[2].appName = <<"g", "b">>
  /\ Len(devices) = 2
  /\ devices[1].deviceId = <<"2">>
  /\ devices[2].deviceName = <<"g", "b">>

\* C10: all-or-nothing listing.  The step in which a fetch settles on a
\* transport error, a non-2xx status or a body with an error field leaves the
\* device list as it was, sets the error to the one message of that failure
\* (the rejection's message, HTTP <status>, or the body's error), and ends the
\* fetch not connected and not loading.
C10_AllOrNothing ==
  [][(lastFetch'.id # lastFetch.id /\ ListFails(lastFetch'.resp)) =>
       LET resp == lastFetch'.resp IN
       /\ devices' = devices
       /\ dError' = (IF resp.kind = "reject" THEN resp.message
                     ELSE IF ~ResOk(resp) THEN HttpMessage(resp.status)
                     ELSE resp.error)
       /\ dError' # ""
       /\ connected' = FALSE
       /\ dLoading' = FALSE]_vars

\* after a load of two devices, a 200 response whose body carries an error
\* field beside one item: the two devices are kept and the error is shown
C10_Witness ==
  /\ lastFetch.id > 1
  /\ lastFetch.resp.status = 200
  /\ lastFetch.resp.error = "partial listing"
  /\ Len(lastFetch.resp.apps) = 1
  /\ Len(devices) = 2
  /\ dError = "partial listing"
  /\ ~connected
  /\ fetches = {}

(***************************************************************************)
(* Claims about the identity codec                                         *)
(***************************************************************************)
HasPrefix(n) == Len(n) >= Len(DevicePrefix) /\ SubSeq(n, 1, Len(DevicePrefix)) = DevicePrefix

\* the name without the device- prefix it may start with
AfterPrefix(n) == IF HasPrefix(n) THEN SubSeq(n, Len(DevicePrefix) + 1, Len(n)) ELSE n

Dashes(s) == {i \in 1..Len(s) : s[i] = "-"}

\* C11 as claimed: decoding an application name that lacks the device- prefix,
\* or that has no - separator after it, gives the whole trimmed string as the
\* device name and an empty device id.
C11_AsClaimed ==
  (/\ codec.op = "decoded"
   /\ codec.input # undefinedChars
   /\ (~HasPrefix(codec.input) \/ Dashes(AfterPrefix(codec.input)) = {}))
  => /\ codec.output.deviceName = AfterPrefix(codec.input)
     /\ codec.output.deviceId = <<>>

\* C12: decode rule.  For a name device- + rest where rest holds at least one
\* dash, the device id is the part of rest after its last dash, and the device
\* name is the part before that dash with every dash replaced by a space.
C12_DecodeRule ==
  (/\ codec.op = "decoded"
   /\ HasPrefix(codec.input)
   /\ Dashes(AfterPrefix(codec.input)) # {})
  => LET rest == AfterPrefix(codec.input)
         p == CHOOSE i \in Dashes(rest) : \A j \in Dashes(rest) : j <= i
     IN /\ codec.output.deviceId = SubSeq(rest, p + 1, Len(rest))
        /\ Len(codec.output.deviceName) = p - 1
        /\ \A i \in 1..(p - 1) :
             codec.output.deviceName[i] = (IF rest[i] = "-" THEN " " ELSE rest[i])

\* device-a-a-1 decoded: the name "a a" and the id "1"
C12_Witness ==
  /\ codec.op = "decoded"
  /\ codec.input = DevicePrefix \o <<"a", "-", "a", "-", "1">>
  /\ codec.output = [deviceName |-> <<"a", " ", "a">>, deviceId |-> <<"1">>]

\* C13 as claimed: decoding the encoded form of an identity whose name holds no
\* dash gives the identity back (the id taken as one token without a dash).
C13_AsClaimed ==
  (/\ codec.op = "roundtrip"
   /\ Dashes(codec.identity.name) = {}
   /\ Dashes(codec.identity.id) = {})
  => codec.output = [deviceName |-> codec.identity.name, deviceId |-> codec.identity.id]

\* C13, amended: decoding the encoded form of an identity gives the identity
\* back when the name holds only lowercase letters, digits and spaces and the
\* id holds no dash.
C13_RoundTrip ==
  (/\ codec.op = "roundtrip"
   /\ \A i \in 1..Len(codec.identity.name) :
        codec.identity.name[i] \in LowerChars \cup DigitChars \cup {" "}
   /\ Dashes(codec.identity.id) = {})
  => codec.output = [deviceName |-> codec.identity.name, deviceId |-> codec.identity.id]

\* the identity ("a a", "1") went through device-a-a-1 and came back
C13_Witness ==
  /\ codec.op = "roundtrip"
  /\ codec.identity = [name |-> <<"a", " ", "a">>, id |-> <<"1">>]
  /\ codec.input = DevicePrefix \o <<"a", "-", "a", "-", "1">>
  /\ codec.output = [deviceName |-> <<"a", " ", "a">>, deviceId |-> <<"1">>]

(***************************************************************************)
(* Claims about the device records                                         *)
(***************************************************************************)
\* the health values a device record may carry
HealthValues == {"Healthy", "Degraded", "Error", "Unknown"}

\* C14 as claimed: every record of a loaded list carries a health among
\* Healthy, Degraded, Error and Unknown; where the item's health is missing or
\* not among them the record's health is Unknown, and where the item's sync
\* is missing the record's sync status is Unknown.
C14_AsClaimed ==
  (lastFetch.id > 0 /\ ListSucceeds(lastFetch.resp)) =>
    \A i \in 1..Len(devices) :
      LET app == lastFetch.resp.apps[i] IN
      /\ devices[i].health \in HealthValues
      /\ app.health \notin HealthValues => devices[i].health = "Unknown"
      /\ app.sync = undefined => devices[i].syncStatus = "Unknown"

(***************************************************************************)
(* Claims about validation, errors and the descriptor                      *)
(***************************************************************************)
\* C15: validation before network.  An invocation, manifest-only or deploy,
\* whose repo URL is empty, whose device name is empty or whose device id is
\* empty or not a token issues no controller call at all, ends Failed with a
\* ValidationError, and the component shows that error and stays on step 2.
C15_ValidationFirst ==
  \A w \in Workflows :
    (attempts[w] > 0 /\ ~ValidInputs(w)) =>
      /\ orch[w].calls = <<>>
      /\ \A m \in net : m.w # w
      /\ orch[w].phase \in {"Building", "Failed"}
      /\ orch[w].phase = "Failed" =>
           /\ orch[w].result.status = "error"
           /\ orch[w].result.error.kind = "ValidationError"
      /\ ~ui[w].loading =>
           /\ ui[w].error.kind = "ValidationError"
           /\ ui[w].step = 2
           /\ ui[w].argoYaml = <<>>

\* a deploy request without a device id, refused and shown, beside a resource
\* of the same controller that nobody touched
C15_Witness ==
  \E w \in Workflows :
    /\ ui[w].inputs.deviceId = <<>>
    /\ attempts[w] > 0
    /\ ui[w].deploy
    /\ ~ui[w].loading
    /\ ui[w].error.kind = "ValidationError"
    /\ resources = {DriftedResource}

\* C16 as claimed: no failure is only logged and dropped.  A list request that
\* failed leaves its error in the dashboard's state, and so does a Sync that
\* met a transport failure or a non-2xx answer.
C16_AsClaimed ==
  /\ (lastFetch.id > 0 /\ ListFails(lastFetch.resp) /\ fetches = {}) => dError # ""
  /\ (\/ lastOnSync.outcome.kind = "reject"
      \/ lastOnSync.outcome.kind = "response" /\ ~ResOk(lastOnSync.outcome))
     => dError # ""

\* the four inputs the descriptor is built from
BuilderInputs(w) ==
  <<IdentityOf(w), ui[w].inputs.repoUrl,
    ui[w].inputs.destinationServer, ui[w].inputs.destinationNamespace>>

\* the invocation in orch[w] has built its descriptor
Built(w) ==
  attempts[w] > 0 /\ ValidInputs(w) /\ orch[w].phase \notin {"Idle", "Building"}

StartsOver(w) == ui[w].step = 3 /\ ui'[w].step = 1

\* C18: pressing Start Over on step 3 sets the step to 1, clears the
\* deployment status, the ArgoCD API response and the YAML, and leaves the
\* device inputs, the repository URL and the destination fields unchanged
C18_StartOver ==
  [][\A w \in Workflows :
       StartsOver(w) =>
         /\ ui'[w].deploymentStatus = ""
         /\ ui'[w].argoApiResponse = ""
         /\ ui'[w].argoYaml = <<>>
         /\ ui'[w].inputs = ui[w].inputs]_vars

\* a workflow back on step 1 after a delivered descriptor, its outputs cleared
\* and its repository URL still there
C18_Witness ==
  \E w \in Workflows :
    /\ ui[w].step = 1
    /\ attempts[w] > 0
    /\ ~ui[w].loading
    /\ ui[w].error = NoError
    /\ ui[w].argoYaml = <<>>
    /\ ui[w].deploymentStatus = ""
    /\ ui[w].argoApiResponse = ""
    /\ ui[w].inputs.repoUrl # ""
    /\ ui[w].inputs.deviceName # <<>>


(***************************************************************************)
(* Claims about the tabs                                                   *)
(***************************************************************************)
\* the step that brings the user back to the Device Dashboard tab
ReturnsToDashboard == view = "workflow" /\ view' = "dashboard"

\* C19 as the specification states it: when the user comes back to the Device
\* Dashboard tab, the dashboard's cluster FQDN is the one it had when the user
\* left the tab, the last one applied in the connection panel
C19_AsClaimed ==
  [][ReturnsToDashboard => dClusterFqdn' = dClusterFqdn]_vars


(***************************************************************************)
(* The table row (DeviceRow) and the claim about its Route action          *)
(***************************************************************************)
\* d.routeHost: the field of the record, undefined where the record has none
routeHost(d) ==
  IF "routeHost" \in DOMAIN d THEN d.routeHost ELSE undefinedChars

\* what routeUrl is when no link is rendered
null == <<"null">>

\* const routeUrl = d.routeHost ? `https://${d.routeHost}` : null
routeUrl(d) ==
  IF Truthy(routeHost(d)) THEN <<"https://">> \o routeHost(d) ELSE null

\* {routeUrl && <a href={routeUrl}>Route</a>}
RouteOffered(d) == routeUrl(d) # null

\* https://<device>-<id>.apps.<clusterFqdn>
RouteTarget(d) ==
  <<"https://">> \o d.deviceName \o <<"-">> \o d.deviceId \o <<".apps.">>
    \o d.clusterFqdn

\* C20 as the specification states it: every record of a loaded list that
\* carries a non-empty cluster FQDN offers a Route action, and the action's
\* target is https://<device>-<id>.apps.<clusterFqdn>
C20_AsClaimed ==
  (lastFetch.id > 0 /\ ListSucceeds(lastFetch.resp)) =>
    \A i \in 1..Len(devices) :
      Truthy(devices[i].clusterFqdn) =>
        /\ RouteOffered(devices[i])
        /\ routeUrl(devices[i]) = RouteTarget(devices[i])


(***************************************************************************)
(* Further claims about the dashboard's inventory fetch                    *)
(***************************************************************************)
\* the items of the response of the fetch that settled last
LastApps == DataApps(lastFetch.resp)

\* C21: no caching of the inventory.  After a successful fetch the device
\* list is exactly the projection of that fetch's response: as many records
\* as items, and every record carries the name of the item at its place, so
\* no record of an earlier fetch survives unless the response holds it again.
C21_NoCaching ==
  (lastFetch.id > 0 /\ ListSucceeds(lastFetch.resp)) =>
    /\ devices = Normalize(LastApps, lastFetch.clusterFqdn)
    /\ Len(devices) = Len(LastApps)
    /\ \A i \in 1..Len(devices) : devices[i].name = NameOf(LastApps[i])

\* the second of two fetches succeeded with an empty list and settled last,
\* and the list on display is empty
C21_Witness ==
  /\ nFetch > 1
  /\ fetches = {}
  /\ lastFetch.id = nFetch
  /\ ListSucceeds(lastFetch.resp)
  /\ lastFetch.resp.hasApps
  /\ lastFetch.resp.apps = <<>>
  /\ devices = <<>>


\* the item carries a cluster FQDN of its own, and it is not empty
HasOwnFqdn(app) == app.clusterFqdn # undefinedChars /\ app.clusterFqdn # <<>>

\* the cluster FQDNs a caller may supply
CallerFqdns == {trim(v) : v \in FqdnInputs} \cup FqdnInputs

\* C22: cluster FQDN attachment.  Each record of a loaded list carries the
\* item's own cluster FQDN when the item has a non-empty one, otherwise the
\* cluster FQDN the fetch was called with (the empty string when that is
\* empty); and the record's decoded name, id and application name are the
\* same whatever cluster FQDN the caller supplies.
C22_FqdnAttachment ==
  (lastFetch.id > 0 /\ ListSucceeds(lastFetch.resp)) =>
    \A i \in 1..Len(devices) :
      LET app == LastApps[i] IN
      /\ HasOwnFqdn(app) => devices[i].clusterFqdn = app.clusterFqdn
      /\ ~HasOwnFqdn(app) => devices[i].clusterFqdn = lastFetch.clusterFqdn
      /\ \A c \in CallerFqdns :
           LET r == NormalizeApp(app, c) IN
           /\ r.deviceName = devices[i].deviceName
           /\ r.deviceId = devices[i].deviceId
           /\ r.appName = devices[i].appName

\* a list loaded with the applied cluster FQDN e: one item with a cluster FQDN
\* of its own, one without
C22_Witness ==
  /\ lastFetch.id > 0
  /\ ListSucceeds(lastFetch.resp)
  /\ lastFetch.clusterFqdn = <<"e">>
  /\ Len(devices) = 2
  /\ LastApps[1].clusterFqdn = <<"c">>
  /\ devices[1].clusterFqdn = <<"c">>
  /\ LastApps[2].clusterFqdn = undefinedChars
  /\ devices[2].clusterFqdn = <<"e">>


\* the cluster FQDNs items carry themselves
OwnFqdns == {a.clusterFqdn : a \in {b \in AppItems : HasOwnFqdn(b)}}

\* every fetch started has completed
AllCompleted == nFetch > 0 /\ fetches = {}

\* C23 as the specification states it: once all overlapping fetches have
\* completed, the list and the error on display are those of the most recently
\* started fetch.  That fetch was called with the dashboard's current cluster
\* FQDN, so when no error is on display it succeeded and every record on
\* display carries that cluster FQDN or the item's own.
C23_AsClaimed ==
  (AllCompleted /\ dError = "") =>
    \A i \in 1..Len(devices) :
      devices[i].clusterFqdn \in {dClusterFqdn} \cup OwnFqdns


\* C27 as the specification states it: in every state in which no fetch is in
\* flight, connected = true implies that the error message is empty
C27_AsClaimed ==
  (fetches = {} /\ connected) => dError = ""


\* fetch number k is in flight
FetchInFlight(k) == \E f \in fetches : f.id = k

\* C29: loading terminates.  Every fetch that receives a response or a
\* transport failure leaves loading = false when it completes, on success and
\* on failure alike; and while the only fetch started so far is in flight
\* loading is true.
C29_LoadingTerminates ==
  /\ \A k \in 1..MaxFetches :
       FetchInFlight(k) ~> (~FetchInFlight(k) /\ ~dLoading)
  /\ []((nFetch = 1 /\ FetchInFlight(1)) => dLoading)

\* the only fetch started has failed, and loading is false
C29_Witness ==
  /\ nFetch = 1
  /\ fetches = {}
  /\ lastFetch.id = 1
  /\ ListFails(lastFetch.resp)
  /\ dError # ""
  /\ ~dLoading


(***************************************************************************)
(* Claims about the dashboard's table                                      *)
(***************************************************************************)
\* C24 as the specification states it: after any sequence of Prev, Next,
\* search, health filter, sort and fetch, the current page is at least 1 and
\* at most totalPages = max(1, ceil(filtered count / 8))
C24_AsClaimed ==
  1 <= page /\ page <= totalPages


\* a column header was clicked
SortClicked == sortBy' # sortBy

\* the search text or the health filter was changed
FilterChanged == query' # query \/ statusFilter' # statusFilter

\* C30: sort toggle.  A click on the header of the current sort key while the
\* direction is asc makes the direction desc; any other click (another key,
\* or the same key with desc) makes the sort that key with asc; and neither
\* sorting nor filtering changes the device list, which stays the projection
\* of the response that loaded it.
C30_SortToggle ==
  /\ [][SortClicked =>
          /\ (sortBy'.key = sortBy.key /\ sortBy.dir = "asc") => sortBy'.dir = "desc"
          /\ ~(sortBy'.key = sortBy.key /\ sortBy.dir = "asc") => sortBy'.dir = "asc"
          /\ devices' = devices]_vars
  /\ [][FilterChanged => devices' = devices]_vars
  /\ []((lastFetch.id > 0 /\ ListSucceeds(lastFetch.resp)) =>
          devices = Normalize(LastApps, lastFetch.clusterFqdn))

\* nine devices on display filtered to the healthy ones and sorted by id,
\* descending, while the device list is in the order it was received
C30_Witness ==
  /\ sortBy = [key |-> "deviceId", dir |-> "desc"]
  /\ statusFilter = "Healthy"
  /\ Len(devices) = Len(TableNames)
  /\ devices[1].deviceName = <<"i">>
  /\ Len(filtered) = Len(TableNames) - 1
  /\ filtered[1].deviceId = <<"2">>
  /\ filtered[1].deviceName = <<"h">>
  /\ filtered[Len(filtered)].deviceId = <<"1">>


(***************************************************************************)
(* Claims about the wizard's buttons and requests                          *)
(***************************************************************************)
\* the changes of step the specification allows
AllowedSteps == {<<1, 2>>, <<2, 3>>, <<3, 1>>}

\* C25 as the specification states it: the step is always 1, 2 or 3 and
\* changes only from 1 to 2, from 2 to 3 and from 3 to 1, for every
\* interleaving of button presses and response arrivals; a response arriving
\* after Start Over never moves the step from 1 to 3
C25_AsClaimed ==
  /\ [](\A w \in Workflows : ui[w].step \in {1, 2, 3})
  /\ [][\A w \in Workflows :
          ui'[w].step # ui[w].step => <<ui[w].step, ui'[w].step>> \in AllowedSteps]_vars

\* C26 as the specification states it: a workflow never has more than one
\* create-device-repo or deploy-argocd-app request in flight
C26_AsClaimed ==
  \A w \in Workflows : Cardinality(RequestsOf(w)) <= 1


\* a request has just settled as a failure
FailureSettled == lastReq' # lastReq /\ lastReq'.failed

\* C28: a failed workflow request leaves the state unchanged.  When
\* create-device-repo or deploy-argocd-app fails (fetch rejects, the body is
\* not JSON, or the body has an error field), the step, the repo URL, the
\* YAML, the deployment status and the API response keep the values they had,
\* the error message is set and loading is false afterwards.
C28_FailureKeepsState ==
  [][FailureSettled =>
       LET w == lastReq'.w IN
       /\ ui'[w].step = ui[w].step
       /\ ui'[w].inputs.repoUrl = ui[w].inputs.repoUrl
       /\ ui'[w].argoYaml = ui[w].argoYaml
       /\ ui'[w].deploymentStatus = ui[w].deploymentStatus
       /\ ui'[w].argoApiResponse = ui[w].argoApiResponse
       /\ ui'[w].error # NoError
       /\ ui'[w].error.body \in FailureMessages
       /\ ~ui'[w].loading]_vars

\* a deploy request failed on step 2: the repository URL of step 1 is still
\* there, nothing is shown, the error is set and loading is false
C28_Witness ==
  \E w \in Workflows :
    /\ lastReq.w = w
    /\ lastReq.kind = "deploy"
    /\ lastReq.failed
    /\ ui[w].step = 2
    /\ ui[w].inputs.repoUrl # ""
    /\ ui[w].argoYaml = <<>>
    /\ ui[w].error # NoError
    /\ ~ui[w].loading

====
